---------------------------- MODULE Spec2Model ----------------------------
(***************************************************************************)
(* A model of the tile-matching engine (src/utils/gameLogic.ts, the second *)
(* and current copy of the module, lines 259-642) and of the session       *)
(* orchestration in the GameBoard component (src/components/GameBoard.tsx, *)
(* the first and current copy, lines 1-518).                               *)
(*                                                                         *)
(* Tiles are JavaScript objects that several boards share, so the model    *)
(* keeps them in a heap (id -> fields) and a board is a grid of ids: a     *)
(* write to a tile's row/col/isMatched is seen through every board that    *)
(* holds the tile, exactly as in the source.                               *)
(***************************************************************************)
EXTENDS Integers, Sequences, FiniteSets, TLC

VARIABLES
    heap,       \* the Candy objects alive: id -> [type, row, col, isMatched, isFalling]
    gameState,  \* the component's React state (GameState)
    tasks,      \* the pending timers / alert dialogs, each with its closure
    rng,        \* the random source: [stream, ptr], read cyclically
    nSwap,      \* swaps attempted so far (bounded by MaxSwaps)
    nReset,     \* New Game presses so far (bounded by MaxResets)
    last,       \* the step that produced this state, with what it saw
    call,       \* pure-function harness: the call applied to the input grid
    cib         \* createInitialBoard run step by step (loop position and board)

vars == <<heap, gameState, tasks, rng, nSwap, nReset, last, call, cib>>

(***************************************************************************)
(* Bounds of the model.                                                    *)
(***************************************************************************)
MaxCells == 9        \* harness grids have rows * cols <= MaxCells
MaxDraw == 2         \* random draws land on the first MaxDraw palette entries
MaxStreamLen == 2    \* the random source repeats every MaxStreamLen draws
MaxSwaps == 3        \* swap attempts (second presses on a neighbour) per behaviour
MaxSwapsBeforeReset == 2  \* New Game is pressed after at most this many swap attempts
MaxResets == 1       \* New Game presses per behaviour

(***************************************************************************)
(* Values.                                                                 *)
(***************************************************************************)
Null == 0            \* the null of (Candy | null); tile ids are 1, 2, ...

CANDY_TYPES == <<"red", "blue", "green", "yellow", "purple", "orange">>

Min(a, b) == IF a < b THEN a ELSE b
Max(a, b) == IF a > b THEN a ELSE b
Abs(a) == IF a < 0 THEN -a ELSE a

Pos(r, c) == [row |-> r, col |-> c]

\* board.length and board[0].length
NumRows(board) == Cardinality(DOMAIN board)
NumCols(board) == Cardinality(DOMAIN board[0])

Positions(board) ==
    {Pos(r, c) : r \in 0 .. NumRows(board) - 1, c \in 0 .. NumCols(board) - 1}

\* board[row][col]?.type, with "none" for undefined
TypeAt(h, board, row, col) ==
    IF board[row][col] = Null THEN "none" ELSE h[board[row][col]].type

\* the ids a board holds
IdsOf(board) ==
    UNION {{board[r][c] : c \in DOMAIN board[r]} : r \in DOMAIN board} \ {Null}

\* the smallest id not in use: the identity of a new object
RECURSIVE FreshFrom(_, _)
FreshFrom(used, n) == IF n \in used THEN FreshFrom(used, n + 1) ELSE n
NewId(h) == FreshFrom(DOMAIN h, 1)

\* h with one more object
Alloc(h, id, candy) == [i \in DOMAIN h \cup {id} |-> IF i = id THEN candy ELSE h[i]]

(***************************************************************************)
(* The random source.  Math.random() is read as a stream of palette        *)
(* indices floor(random * length), repeated cyclically.                    *)
(***************************************************************************)
NextDraw(g) == g.stream[g.ptr]
Advance(g) == [g EXCEPT !.ptr = IF g.ptr = Len(g.stream) THEN 1 ELSE g.ptr + 1]

Streams == [1 .. MaxStreamLen -> 0 .. MaxDraw - 1]

(***************************************************************************)
(* Tile Factory: createCandy.                                              *)
(***************************************************************************)
\* the palette of the earlier createCandy, which grows with every level
AvailableTypesEarly(level) == SubSeq(CANDY_TYPES, 1, Min(4 + level, Len(CANDY_TYPES)))

AvailableTypes(level) == SubSeq(CANDY_TYPES, 1, Min(4 + (level \div 10), Len(CANDY_TYPES)))

createCandy(row, col, level, draw) ==
    [type |-> AvailableTypes(level)[draw + 1], row |-> row, col |-> col,
     isMatched |-> FALSE, isFalling |-> FALSE]

(***************************************************************************)
(* areAdjacent, swapCandies.                                               *)
(***************************************************************************)
\* an adjacency that lets diagonal neighbours through
areAdjacentOrDiagonal(pos1, pos2) ==
    LET rowDiff == Abs(pos1.row - pos2.row)
        colDiff == Abs(pos1.col - pos2.col)
    IN  (rowDiff = 1 /\ colDiff <= 1) \/ (rowDiff = 0 /\ colDiff = 1)

areAdjacent(pos1, pos2) ==
    LET rowDiff == Abs(pos1.row - pos2.row)
        colDiff == Abs(pos1.col - pos2.col)
    IN  (rowDiff = 1 /\ colDiff = 0) \/ (rowDiff = 0 /\ colDiff = 1)

\* the rows are copied (board.map(row => [...row])), the tiles are not: the
\* position update writes into the objects the given board holds too
WriteRowCol(h, id, pos) ==
    IF id = Null THEN h ELSE [h EXCEPT ![id].row = pos.row, ![id].col = pos.col]

\* a swap that forgets the temporary: the tile of pos2 ends in both cells
swapCandiesOneWay(h, board, pos1, pos2) ==
    LET newBoard == [board EXCEPT ![pos1.row][pos1.col] = board[pos2.row][pos2.col]]
        h1 == WriteRowCol(h, newBoard[pos1.row][pos1.col], pos1)
        h2 == WriteRowCol(h1, newBoard[pos2.row][pos2.col], pos2)
    IN  [board |-> newBoard, heap |-> h2]

swapCandies(h, board, pos1, pos2) ==
    LET temp == board[pos1.row][pos1.col]
        b1 == [board EXCEPT ![pos1.row][pos1.col] = board[pos2.row][pos2.col]]
        newBoard == [b1 EXCEPT ![pos2.row][pos2.col] = temp]
        h1 == WriteRowCol(h, newBoard[pos1.row][pos1.col], pos1)
        h2 == WriteRowCol(h1, newBoard[pos2.row][pos2.col], pos2)
    IN  [board |-> newBoard, heap |-> h2]


(***************************************************************************)
(* Match Detector: findMatches.  The Set<string> of keys `${row}-${col}`   *)
(* is a set of <<row, col>> pairs here; the returned Position[] is read    *)
(* only through its length and by forEach, so it is kept as a set.         *)
(***************************************************************************)
MatchKey(row, col) == <<row, col>>
FromKey(key) == Pos(key[1], key[2])

\* while (checkCol < cols && board[row][checkCol]?.type === candy1.type)
RECURSIVE LongerH(_, _, _, _, _)
LongerH(h, board, row, checkCol, type) ==
    IF checkCol < NumCols(board) /\ TypeAt(h, board, row, checkCol) = type
    THEN {MatchKey(row, checkCol)} \cup LongerH(h, board, row, checkCol + 1, type)
    ELSE {}

\* while (checkRow < rows && board[checkRow][col]?.type === candy1.type)
RECURSIVE LongerV(_, _, _, _, _)
LongerV(h, board, checkRow, col, type) ==
    IF checkRow < NumRows(board) /\ TypeAt(h, board, checkRow, col) = type
    THEN {MatchKey(checkRow, col)} \cup LongerV(h, board, checkRow + 1, col, type)
    ELSE {}

\* a horizontal loop body that compares only the first two tiles of the window
HorizontalAtPairOnly(h, board, row, col) ==
    IF /\ board[row][col] # Null
       /\ board[row][col + 1] # Null
       /\ board[row][col + 2] # Null
       /\ TypeAt(h, board, row, col) = TypeAt(h, board, row, col + 1)
    THEN {MatchKey(row, col), MatchKey(row, col + 1), MatchKey(row, col + 2)}
             \cup LongerH(h, board, row, col + 3, TypeAt(h, board, row, col))
    ELSE {}

\* one iteration of the horizontal loop body, anchored at (row, col)
HorizontalAt(h, board, row, col) ==
    IF /\ board[row][col] # Null
       /\ board[row][col + 1] # Null
       /\ board[row][col + 2] # Null
       /\ TypeAt(h, board, row, col) = TypeAt(h, board, row, col + 1)
       /\ TypeAt(h, board, row, col + 1) = TypeAt(h, board, row, col + 2)
    THEN {MatchKey(row, col), MatchKey(row, col + 1), MatchKey(row, col + 2)}
             \cup LongerH(h, board, row, col + 3, TypeAt(h, board, row, col))
    ELSE {}

\* one iteration of the vertical loop body, anchored at (row, col)
VerticalAt(h, board, row, col) ==
    IF /\ board[row][col] # Null
       /\ board[row + 1][col] # Null
       /\ board[row + 2][col] # Null
       /\ TypeAt(h, board, row, col) = TypeAt(h, board, row + 1, col)
       /\ TypeAt(h, board, row + 1, col) = TypeAt(h, board, row + 2, col)
    THEN {MatchKey(row, col), MatchKey(row + 1, col), MatchKey(row + 2, col)}
             \cup LongerV(h, board, row + 3, col, TypeAt(h, board, row, col))
    ELSE {}

findMatches(h, board) ==
    LET rows == NumRows(board)
        cols == NumCols(board)
        matches ==
            UNION {HorizontalAt(h, board, row, col) :
                       row \in 0 .. rows - 1, col \in 0 .. cols - 3}
            \cup
            UNION {VerticalAt(h, board, row, col) :
                       row \in 0 .. rows - 3, col \in 0 .. cols - 1}
    IN  {FromKey(key) : key \in matches}

(***************************************************************************)
(* removeMatches, applyGravity.                                            *)
(***************************************************************************)
removeMatches(board, matches) ==
    [row \in DOMAIN board |->
        [col \in DOMAIN board[row] |->
            IF Pos(row, col) \in matches THEN Null ELSE board[row][col]]]

\* a move-down that forgets emptyRow-- for a tile already in place: the
\* next tile above lands on it
RECURSIVE MoveDownKeepsSlot(_, _, _)
MoveDownKeepsSlot(s, col, row) ==
    IF row < 0 THEN s
    ELSE IF s.board[row][col] # Null
         THEN IF row # s.emptyRow
              THEN LET id == s.board[row][col]
                       b1 == [s.board EXCEPT ![s.emptyRow][col] = id]
                       b2 == [b1 EXCEPT ![row][col] = Null]
                   IN  MoveDownKeepsSlot([board |-> b2,
                                 heap |-> WriteRowCol(s.heap, id, Pos(s.emptyRow, col)),
                                 emptyRow |-> s.emptyRow - 1], col, row - 1)
              ELSE MoveDownKeepsSlot(s, col, row - 1)
         ELSE MoveDownKeepsSlot(s, col, row - 1)

\* "Move existing candies down" for one column: the inner loop from `row`
\* down to 0; s is [board, heap, emptyRow]
RECURSIVE MoveDown(_, _, _)
MoveDown(s, col, row) ==
    IF row < 0 THEN s
    ELSE IF s.board[row][col] # Null
         THEN IF row # s.emptyRow
              THEN LET id == s.board[row][col]
                       b1 == [s.board EXCEPT ![s.emptyRow][col] = id]
                       b2 == [b1 EXCEPT ![row][col] = Null]
                   IN  MoveDown([board |-> b2,
                                 heap |-> WriteRowCol(s.heap, id, Pos(s.emptyRow, col)),
                                 emptyRow |-> s.emptyRow - 1], col, row - 1)
              ELSE MoveDown([s EXCEPT !.emptyRow = s.emptyRow - 1], col, row - 1)
         ELSE MoveDown(s, col, row - 1)

\* a fill that stops above row 0: for (row = emptyRow; row > 0; row--)
RECURSIVE FillColumnAboveTop(_, _, _, _)
FillColumnAboveTop(s, col, row, level) ==
    IF row <= 0 THEN s
    ELSE LET id == NewId(s.heap)
             candy == createCandy(row, col, level, NextDraw(s.rng))
         IN  FillColumnAboveTop([board |-> [s.board EXCEPT ![row][col] = id],
                                 heap |-> Alloc(s.heap, id, candy),
                                 rng |-> Advance(s.rng)], col, row - 1, level)

\* "Fill empty spaces with new candies": rows emptyRow down to 0 of one
\* column; s is [board, heap, rng]
RECURSIVE FillColumn(_, _, _, _)
FillColumn(s, col, row, level) ==
    IF row < 0 THEN s
    ELSE LET id == NewId(s.heap)
             candy == createCandy(row, col, level, NextDraw(s.rng))
         IN  FillColumn([board |-> [s.board EXCEPT ![row][col] = id],
                         heap |-> Alloc(s.heap, id, candy),
                         rng |-> Advance(s.rng)], col, row - 1, level)

\* the outer loop over the columns col .. cols - 1; s is [board, heap, rng]
RECURSIVE GravityFrom(_, _, _)
GravityFrom(s, col, level) ==
    IF col >= NumCols(s.board) THEN s
    ELSE LET moved == MoveDown([board |-> s.board, heap |-> s.heap,
                                emptyRow |-> NumRows(s.board) - 1],
                               col, NumRows(s.board) - 1)
             filled == FillColumn([board |-> moved.board, heap |-> moved.heap,
                                   rng |-> s.rng], col, moved.emptyRow, level)
         IN  GravityFrom(filled, col + 1, level)

\* a gravity whose loop over the columns starts at col = 1
applyGravityFromSecondColumn(h, board, level, g) ==
    GravityFrom([board |-> board, heap |-> h, rng |-> g], 1, level)

\* returns [board, heap, rng]: the new board, the objects after the writes
\* and the allocations, the random source after the draws
applyGravity(h, board, level, g) ==
    GravityFrom([board |-> board, heap |-> h, rng |-> g], 0, level)

(***************************************************************************)
(* Move Validator: hasValidMoves, and isBoardCleared.                      *)
(***************************************************************************)
\* the scan from cell number k (row-major), right neighbour before bottom
\* neighbour; every trial swap writes row/col into the shared tiles.
\* Returns [result, heap].
RECURSIVE ValidFrom(_, _, _)
ValidFrom(h, board, k) ==
    LET rows == NumRows(board)
        cols == NumCols(board)
        row == k \div cols
        col == k % cols
    IN  IF k >= rows * cols THEN [result |-> FALSE, heap |-> h]
        ELSE LET right == IF col < cols - 1
                          THEN swapCandies(h, board, Pos(row, col), Pos(row, col + 1))
                          ELSE [board |-> board, heap |-> h]
                 foundRight == col < cols - 1 /\ findMatches(right.heap, right.board) # {}
                 down == IF row < rows - 1
                         THEN swapCandies(right.heap, board, Pos(row, col), Pos(row + 1, col))
                         ELSE [board |-> board, heap |-> right.heap]
                 foundDown == row < rows - 1 /\ findMatches(down.heap, down.board) # {}
             IN  IF foundRight THEN [result |-> TRUE, heap |-> right.heap]
                 ELSE IF foundDown THEN [result |-> TRUE, heap |-> down.heap]
                 ELSE ValidFrom(down.heap, board, k + 1)

\* a scan that tries the swap with the right neighbour only
RECURSIVE ValidFromRightOnly(_, _, _)
ValidFromRightOnly(h, board, k) ==
    LET rows == NumRows(board)
        cols == NumCols(board)
        row == k \div cols
        col == k % cols
    IN  IF k >= rows * cols THEN [result |-> FALSE, heap |-> h]
        ELSE LET right == IF col < cols - 1
                          THEN swapCandies(h, board, Pos(row, col), Pos(row, col + 1))
                          ELSE [board |-> board, heap |-> h]
                 foundRight == col < cols - 1 /\ findMatches(right.heap, right.board) # {}
             IN  IF foundRight THEN [result |-> TRUE, heap |-> right.heap]
                 ELSE ValidFromRightOnly(right.heap, board, k + 1)

hasValidMovesRightOnly(h, board) == ValidFromRightOnly(h, board, 0)

hasValidMoves(h, board) == ValidFrom(h, board, 0)

isBoardCleared(board) ==
    \A p \in Positions(board) : board[p.row][p.col] = Null


(***************************************************************************)
(* Harness for the engine's functions: Init draws a grid (cells empty or   *)
(* occupied by a well-formed tile), an action applies one function to it.  *)
(***************************************************************************)
HarnessTypes == {"red", "blue"}

IdleState == [idle |-> TRUE]
IdleRng == [stream |-> <<0>>, ptr |-> 1]
IdleCall == [fn |-> "idle"]
IdleCib == [pc |-> "idle"]
IdleLast == [kind |-> "idle"]

\* the grid with `cols` columns whose cell number k (row-major) holds cells[k]
GridBoard(rows, cols, cells) ==
    [r \in 0 .. rows - 1 |->
        [c \in 0 .. cols - 1 |->
            IF cells[r * cols + c] = "none" THEN Null ELSE r * cols + c + 1]]

GridHeap(rows, cols, cells) ==
    [id \in {k + 1 : k \in {j \in 0 .. rows * cols - 1 : cells[j] # "none"}} |->
        [type |-> cells[id - 1], row |-> (id - 1) \div cols, col |-> (id - 1) % cols,
         isMatched |-> FALSE, isFalling |-> FALSE]]

InitGrid ==
    /\ \E rows \in 1 .. MaxCells, cols \in 1 .. MaxCells :
          /\ rows * cols <= MaxCells
          /\ \E cells \in [0 .. rows * cols - 1 -> HarnessTypes \cup {"none"}] :
                /\ heap = GridHeap(rows, cols, cells)
                /\ call = [fn |-> "input", board |-> GridBoard(rows, cols, cells)]
    /\ gameState = IdleState
    /\ tasks = {}
    /\ rng = IdleRng
    /\ nSwap = 0
    /\ nReset = 0
    /\ last = IdleLast
    /\ cib = IdleCib

CallFindMatches ==
    /\ call.fn = "input"
    /\ call' = [fn |-> "findMatches", board |-> call.board, heapBefore |-> heap,
                result |-> findMatches(heap, call.board)]
    /\ UNCHANGED <<heap, gameState, tasks, rng, nSwap, nReset, last, cib>>

CallHasValidMoves ==
    /\ call.fn = "input"
    /\ LET r == hasValidMoves(heap, call.board)
       IN  /\ call' = [fn |-> "hasValidMoves", board |-> call.board, heapBefore |-> heap,
                       result |-> r.result]
           /\ heap' = r.heap
    /\ UNCHANGED <<gameState, tasks, rng, nSwap, nReset, last, cib>>

SpecFindMatches == InitGrid /\ [][CallFindMatches]_vars
SpecHasValidMoves == InitGrid /\ [][CallHasValidMoves]_vars

\* (row, c1) .. (row, c2) are occupied cells of one type
SameTypeRow(h, board, row, c1, c2) ==
    \A c \in c1 .. c2 :
        /\ board[row][c] # Null
        /\ h[board[row][c]].type = h[board[row][c1]].type

\* (r1, col) .. (r2, col) are occupied cells of one type
SameTypeCol(h, board, col, r1, r2) ==
    \A r \in r1 .. r2 :
        /\ board[r][col] # Null
        /\ h[board[r][col]].type = h[board[r1][col]].type

InHorizontalRun(h, board, p) ==
    \E c1 \in 0 .. p.col, c2 \in p.col .. NumCols(board) - 1 :
        c2 - c1 >= 2 /\ SameTypeRow(h, board, p.row, c1, c2)

InVerticalRun(h, board, p) ==
    \E r1 \in 0 .. p.row, r2 \in p.row .. NumRows(board) - 1 :
        r2 - r1 >= 2 /\ SameTypeCol(h, board, p.col, r1, r2)

\* C1: findMatches returns exactly the positions that lie in a horizontal or
\* vertical run of 3 or more contiguous occupied cells of one type: every
\* cell of a longer run, a crossing cell once, nothing outside a run.
C1_FindMatchesExactlyRuns ==
    call.fn = "findMatches" =>
        call.result = {p \in Positions(call.board) :
                          \/ InHorizontalRun(call.heapBefore, call.board, p)
                          \/ InVerticalRun(call.heapBefore, call.board, p)}

\* a grid with a cell at the crossing of a horizontal and a vertical run and
\* cells outside every run
C1_Witness ==
    /\ call.fn = "findMatches"
    /\ \E p \in call.result :
          /\ InHorizontalRun(call.heapBefore, call.board, p)
          /\ InVerticalRun(call.heapBefore, call.board, p)
    /\ call.result # Positions(call.board)

FullyOccupied(board) == \A p \in Positions(board) : board[p.row][p.col] # Null

SwapGivesMatch(h, board, p, q) ==
    LET s == swapCandies(h, board, p, q)
    IN  findMatches(s.heap, s.board) # {}

\* C3: on a fully occupied grid hasValidMoves is true iff the swap of some
\* two 4-directionally adjacent cells gives a grid with a match.
C3_HasValidMovesIffSomeSwapMatches ==
    (call.fn = "hasValidMoves" /\ FullyOccupied(call.board)) =>
        (call.result <=>
            \E p, q \in Positions(call.board) :
                areAdjacent(p, q) /\ SwapGivesMatch(call.heapBefore, call.board, p, q))

\* a fully occupied grid without a match whose only matching swaps are
\* vertical ones
C3_Witness ==
    /\ call.fn = "hasValidMoves"
    /\ FullyOccupied(call.board)
    /\ call.result
    /\ findMatches(call.heapBefore, call.board) = {}
    /\ \A p, q \in Positions(call.board) :
          (areAdjacent(p, q) /\ SwapGivesMatch(call.heapBefore, call.board, p, q))
              => p.col = q.col


(***************************************************************************)
(* Board Generator: checkWouldCreateMatch and createInitialBoard.  While   *)
(* the board is being filled, board.length is row + 1 and board[row].length*)
(* is col: the model keeps those domains.                                  *)
(***************************************************************************)
\* the length of the run of `type` from (row, checkCol) leftwards
RECURSIVE CountLeft(_, _, _, _, _)
CountLeft(h, board, row, checkCol, type) ==
    IF checkCol >= 0 /\ TypeAt(h, board, row, checkCol) = type
    THEN 1 + CountLeft(h, board, row, checkCol - 1, type)
    ELSE 0

\* ... rightwards, while checkCol < board[row].length
RECURSIVE CountRight(_, _, _, _, _)
CountRight(h, board, row, checkCol, type) ==
    IF checkCol < Cardinality(DOMAIN board[row]) /\ TypeAt(h, board, row, checkCol) = type
    THEN 1 + CountRight(h, board, row, checkCol + 1, type)
    ELSE 0

\* ... upwards
RECURSIVE CountUp(_, _, _, _, _)
CountUp(h, board, checkRow, col, type) ==
    IF checkRow >= 0 /\ TypeAt(h, board, checkRow, col) = type
    THEN 1 + CountUp(h, board, checkRow - 1, col, type)
    ELSE 0

\* ... downwards, while checkRow < board.length
RECURSIVE CountDown(_, _, _, _, _)
CountDown(h, board, checkRow, col, type) ==
    IF checkRow < NumRows(board) /\ TypeAt(h, board, checkRow, col) = type
    THEN 1 + CountDown(h, board, checkRow + 1, col, type)
    ELSE 0

\* a check that looks along the row only
checkWouldCreateMatchRowOnly(h, board, candy, row, col) ==
    LET horizontalCount == 1 + CountLeft(h, board, row, col - 1, candy.type)
                             + CountRight(h, board, row, col + 1, candy.type)
    IN  horizontalCount >= 3

checkWouldCreateMatch(h, board, candy, row, col) ==
    LET horizontalCount == 1 + CountLeft(h, board, row, col - 1, candy.type)
                             + CountRight(h, board, row, col + 1, candy.type)
        verticalCount == 1 + CountUp(h, board, row - 1, col, candy.type)
                           + CountDown(h, board, row + 1, col, candy.type)
    IN  IF horizontalCount >= 3 THEN TRUE
        ELSE IF verticalCount >= 3 THEN TRUE
        ELSE FALSE

MaxAttempts == 10    \* while (attempts < 10)

\* board[row] = [] : one more, empty, row
WithEmptyRow(board, row) ==
    [r \in DOMAIN board \cup {row} |-> IF r = row THEN <<>> ELSE board[r]]

\* board[row][col] = id, which extends the row by one cell
WithCell(board, row, col, id) ==
    [board EXCEPT ![row] = [c \in DOMAIN board[row] \cup {col} |->
                               IF c = col THEN id ELSE board[row][c]]]

\* the while loop of one cell: the candidate that leaves it, and the random
\* source after the draws; s is [candy, rng]
RECURSIVE RegenerateFrom(_, _, _, _, _, _, _)
RegenerateFrom(h, board, s, row, col, level, attempts) ==
    IF attempts < MaxAttempts /\ checkWouldCreateMatch(h, board, s.candy, row, col)
    THEN RegenerateFrom(h, board,
                        [candy |-> createCandy(row, col, level, NextDraw(s.rng)),
                         rng |-> Advance(s.rng)],
                        row, col, level, attempts + 1)
    ELSE s

\* the inner loop: the cells col .. cols - 1 of row `row`; s is
\* [board, heap, rng]
RECURSIVE FillRowFrom(_, _, _, _, _)
FillRowFrom(s, cols, level, row, col) ==
    IF col >= cols THEN s
    ELSE LET first == [candy |-> createCandy(row, col, level, NextDraw(s.rng)),
                       rng |-> Advance(s.rng)]
             kept == RegenerateFrom(s.heap, s.board, first, row, col, level, 0)
             id == NewId(s.heap)
         IN  FillRowFrom([board |-> WithCell(s.board, row, col, id),
                          heap |-> Alloc(s.heap, id, kept.candy),
                          rng |-> kept.rng],
                         cols, level, row, col + 1)

\* the outer loop: the rows row .. rows - 1
RECURSIVE FillRowsFrom(_, _, _, _, _)
FillRowsFrom(s, rows, cols, level, row) ==
    IF row >= rows THEN s
    ELSE FillRowsFrom(FillRowFrom([s EXCEPT !.board = WithEmptyRow(s.board, row)],
                                  cols, level, row, 0),
                      rows, cols, level, row + 1)

\* returns [board, heap, rng]
\* a generator whose loop over the rows runs once more: row <= rows
createInitialBoardOneRowMore(h, rows, cols, level, g) ==
    FillRowsFrom([board |-> <<>>, heap |-> h, rng |-> g], rows + 1, cols, level, 0)

createInitialBoard(h, rows, cols, level, g) ==
    FillRowsFrom([board |-> <<>>, heap |-> h, rng |-> g], rows, cols, level, 0)

(***************************************************************************)
(* createInitialBoard step by step, every draw of the tile factory free    *)
(* among the first MaxDraw palette entries: one action per createCandy     *)
(* call and per exit of the while loop.                                    *)
(***************************************************************************)
CibLevels == {1}

InitCib ==
    /\ \E rows \in 3 .. MaxCells, cols \in 3 .. MaxCells, level \in CibLevels :
          /\ rows * cols <= MaxCells
          /\ cib = [pc |-> "draw", rows |-> rows, cols |-> cols, level |-> level,
                    board |-> <<>>, row |-> 0, col |-> 0,
                    candy |-> Null, attempts |-> 0, regenerated |-> 0, unchecked |-> 0,
                    placedInRun |-> 0]
    /\ heap = <<>>
    /\ gameState = IdleState
    /\ tasks = {}
    /\ rng = IdleRng
    /\ nSwap = 0
    /\ nReset = 0
    /\ last = IdleLast
    /\ call = IdleCall

\* let candy = createCandy(row, col, level); let attempts = 0
CibDraw ==
    /\ cib.pc = "draw"
    /\ \E draw \in 0 .. MaxDraw - 1 :
          cib' = [cib EXCEPT !.pc = "loop",
                             !.board = IF cib.col = 0 THEN WithEmptyRow(cib.board, cib.row)
                                       ELSE cib.board,
                             !.candy = createCandy(cib.row, cib.col, cib.level, draw),
                             !.attempts = 0]
    /\ UNCHANGED <<heap, gameState, tasks, rng, nSwap, nReset, last, call>>

\* a loop that goes round once more: while (attempts <= 10)
CibRegenerateOnceMore ==
    /\ cib.pc = "loop"
    /\ cib.attempts <= MaxAttempts
    /\ checkWouldCreateMatch(heap, cib.board, cib.candy, cib.row, cib.col)
    /\ \E draw \in 0 .. MaxDraw - 1 :
          cib' = [cib EXCEPT !.candy = createCandy(cib.row, cib.col, cib.level, draw),
                             !.attempts = cib.attempts + 1,
                             !.regenerated = Min(cib.regenerated + 1, 1)]
    /\ UNCHANGED <<heap, gameState, tasks, rng, nSwap, nReset, last, call>>

\* an iteration of the while loop that regenerates the candidate
CibRegenerate ==
    /\ cib.pc = "loop"
    /\ cib.attempts < MaxAttempts
    /\ checkWouldCreateMatch(heap, cib.board, cib.candy, cib.row, cib.col)
    /\ \E draw \in 0 .. MaxDraw - 1 :
          cib' = [cib EXCEPT !.candy = createCandy(cib.row, cib.col, cib.level, draw),
                             !.attempts = cib.attempts + 1,
                             !.regenerated = Min(cib.regenerated + 1, 1)]
    /\ UNCHANGED <<heap, gameState, tasks, rng, nSwap, nReset, last, call>>

\* the loop is left (break, or attempts = 10) and board[row][col] = candy
CibPlace ==
    /\ cib.pc = "loop"
    /\ ~(cib.attempts < MaxAttempts
            /\ checkWouldCreateMatch(heap, cib.board, cib.candy, cib.row, cib.col))
    /\ LET id == NewId(heap)
           lastCol == cib.col = cib.cols - 1
           lastRow == cib.row = cib.rows - 1
       IN  /\ heap' = Alloc(heap, id, cib.candy)
           /\ cib' = [cib EXCEPT
                        !.board = WithCell(cib.board, cib.row, cib.col, id),
                        !.pc = IF lastCol /\ lastRow THEN "done" ELSE "draw",
                        !.row = IF lastCol THEN cib.row + 1 ELSE cib.row,
                        !.col = IF lastCol THEN 0 ELSE cib.col + 1,
                        !.candy = Null,
                        !.attempts = 0,
                        !.unchecked = IF cib.attempts >= MaxAttempts THEN 1
                                      ELSE cib.unchecked,
                        !.placedInRun =
                            IF checkWouldCreateMatch(heap, cib.board, cib.candy,
                                                     cib.row, cib.col)
                            THEN 1 ELSE cib.placedInRun]
    /\ UNCHANGED <<gameState, tasks, rng, nSwap, nReset, last, call>>

SpecInitialBoard == InitCib /\ [][CibDraw \/ CibRegenerate \/ CibPlace]_vars

getBoardSizeEarly(level) ==
    IF level < 10 THEN [rows |-> 4, cols |-> 4]
    ELSE IF level <= 30 THEN [rows |-> 5, cols |-> 5]
    ELSE IF level <= 60 THEN [rows |-> 6, cols |-> 6]
    ELSE IF level <= 100 THEN [rows |-> 7, cols |-> 7]
    ELSE IF level <= 200 THEN [rows |-> 8, cols |-> 8]
    ELSE IF level <= 400 THEN [rows |-> 9, cols |-> 9]
    ELSE IF level <= 700 THEN [rows |-> 10, cols |-> 10]
    ELSE [rows |-> 11, cols |-> 11]

getBoardSize(level) ==
    IF level <= 10 THEN [rows |-> 4, cols |-> 4]
    ELSE IF level <= 30 THEN [rows |-> 5, cols |-> 5]
    ELSE IF level <= 60 THEN [rows |-> 6, cols |-> 6]
    ELSE IF level <= 100 THEN [rows |-> 7, cols |-> 7]
    ELSE IF level <= 200 THEN [rows |-> 8, cols |-> 8]
    ELSE IF level <= 400 THEN [rows |-> 9, cols |-> 9]
    ELSE IF level <= 700 THEN [rows |-> 10, cols |-> 10]
    ELSE [rows |-> 11, cols |-> 11]

\* a move budget without its floor: baseMoves - Math.floor(level / 10)
getLevelConfigNoFloor(level, selectedColors) ==
    LET boardSize == getBoardSize(level)
        totalCells == boardSize.rows * boardSize.cols
        baseMoves == (totalCells * 3) \div 2
        moves == baseMoves - (level \div 10)
        objective ==
            IF level % 5 = 0
            THEN [type |-> "collect_colors",
                  targetColors |-> [color \in selectedColors |->
                                       ((totalCells * 2) \div 5) + (level \div 5)]]
            ELSE [type |-> "clear_board", targetColors |-> <<>>]
    IN  [level |-> level, moves |-> moves, boardSize |-> boardSize, objective |-> objective]

\* a colour collection objective on every 10th level only
getLevelConfigEveryTenth(level, selectedColors) ==
    LET boardSize == getBoardSize(level)
        totalCells == boardSize.rows * boardSize.cols
        baseMoves == (totalCells * 3) \div 2
        moves == Max(15, baseMoves - (level \div 10))
        objective ==
            IF level % 10 = 0
            THEN [type |-> "collect_colors",
                  targetColors |-> [color \in selectedColors |->
                                       ((totalCells * 2) \div 5) + (level \div 5)]]
            ELSE [type |-> "clear_board", targetColors |-> <<>>]
    IN  [level |-> level, moves |-> moves, boardSize |-> boardSize, objective |-> objective]

getLevelConfig(level, selectedColors) ==
    LET boardSize == getBoardSize(level)
        totalCells == boardSize.rows * boardSize.cols
        baseMoves == (totalCells * 3) \div 2
        moves == Max(15, baseMoves - (level \div 10))
        objective ==
            IF level % 5 = 0
            THEN [type |-> "collect_colors",
                  targetColors |-> [color \in selectedColors |->
                                       ((totalCells * 2) \div 5) + (level \div 5)]]
            ELSE [type |-> "clear_board", targetColors |-> <<>>]
    IN  [level |-> level, moves |-> moves, boardSize |-> boardSize, objective |-> objective]

(***************************************************************************)
(* The GameBoard component: its state and checkLevelComplete.              *)
(***************************************************************************)
NoPos == [row |-> -1, col |-> -1]    \* selectedCandy: null

NoneCollected == [t \in {CANDY_TYPES[i] : i \in 1 .. Len(CANDY_TYPES)} |-> 0]

\* the GameState a level starts with (useState initializer, resetGame)
FreshState(board, config, score) ==
    [board |-> board, score |-> score, moves |-> config.moves, level |-> config.level,
     selectedCandy |-> NoPos, isProcessing |-> FALSE, objective |-> config.objective,
     collectedColors |-> NoneCollected]

\* gameStateRef.current: the effect copies every committed state into the
\* ref before the next timer or press runs
gameStateRef == gameState

\* a check that asks for more than the target: collected <= target fails
checkLevelCompleteAboveTarget(currentState) ==
    IF currentState.objective.type = "collect_colors"
    THEN \A color \in DOMAIN currentState.objective.targetColors :
             ~(currentState.collectedColors[color]
                   <= currentState.objective.targetColors[color])
    ELSE FALSE

checkLevelComplete(currentState) ==
    IF currentState.objective.type = "collect_colors"
    THEN \A color \in DOMAIN currentState.objective.targetColors :
             ~(currentState.collectedColors[color]
                   < currentState.objective.targetColors[color])
    ELSE FALSE

maxIterations == 20

(***************************************************************************)
(* Board Randomizer.  randomizeBoard is imported by the component but its  *)
(* code is not part of the sources at hand: it is modelled from the        *)
(* design: reassign every tile's type until the board has a valid move,    *)
(* at most RandomizeAttempts times, then fall back to createInitialBoard.  *)
(***************************************************************************)
RandomizeAttempts == 3

\* new tiles for the cells from number k on (row-major); s is [board, heap, rng]
RECURSIVE ReassignFrom(_, _, _)
ReassignFrom(s, level, k) ==
    LET cols == NumCols(s.board)
        row == k \div cols
        col == k % cols
    IN  IF k >= NumRows(s.board) * cols THEN s
        ELSE LET id == NewId(s.heap)
                 candy == createCandy(row, col, level, NextDraw(s.rng))
             IN  ReassignFrom([board |-> [s.board EXCEPT ![row][col] = id],
                               heap |-> Alloc(s.heap, id, candy),
                               rng |-> Advance(s.rng)], level, k + 1)

\* attempts: the reassignments made; fallback: none of them had a valid
\* move and the board is a board of the generator
RECURSIVE RandomizeFrom(_, _, _, _, _)
RandomizeFrom(h, board, level, g, attempt) ==
    IF attempt >= RandomizeAttempts
    THEN LET fresh == createInitialBoard(h, NumRows(board), NumCols(board), level, g)
         IN  [board |-> fresh.board, heap |-> fresh.heap, rng |-> fresh.rng,
              attempts |-> attempt, fallback |-> TRUE]
    ELSE LET s == ReassignFrom([board |-> board, heap |-> h, rng |-> g], level, 0)
             v == hasValidMoves(s.heap, s.board)
         IN  IF v.result THEN [board |-> s.board, heap |-> v.heap, rng |-> s.rng,
                               attempts |-> attempt + 1, fallback |-> FALSE]
             ELSE RandomizeFrom(v.heap, board, level, s.rng, attempt + 1)

\* returns [board, heap, rng, attempts, fallback]
randomizeBoard(h, board, level, g) == RandomizeFrom(h, board, level, g, 0)


(***************************************************************************)
(* The session: presses, timers and their closures.                        *)
(*                                                                         *)
(* A task is a pending timer callback with the variables its closure       *)
(* holds.  kind is the point the callback resumes at:                      *)
(*   "process"   setTimeout(200): processMatchesWithBoard(newBoard, ...)   *)
(*   "break"     the await of 450 ms inside the cascade loop               *)
(*   "fall"      the await of 400 ms inside the cascade loop               *)
(*   "check"     setTimeout(500) / setTimeout(300) after the loop          *)
(*   "randomize" the await of 500 ms in checkAndRandomizeIfNeeded          *)
(*   "revert"    setTimeout(300) of a swap without a match                 *)
(*   "levelComplete"  the Level Complete alert, waiting for Continue       *)
(*   "failTimer" setTimeout(500) of the effect on moves                    *)
(*   "levelFailed"    the Level Failed alert, waiting for a button         *)
(* An alert is a modal dialog: while one is open no tile and no button of  *)
(* the screen under it can be pressed; timers keep firing.                 *)
(* ghost is bookkeeping for the properties, not a variable of the source:  *)
(* the number of the press that started the swap, the state that press     *)
(* saw, the findMatches results summed, the tiles removed by type.         *)
(***************************************************************************)
SwapKinds == {"process", "break", "fall", "revert"}

AlertKinds == {"levelComplete", "levelFailed"}

AlertOpen(ts) == \E t \in ts : t.kind \in AlertKinds

\* a swap is in flight: from its press to the end of its revert or cascade
SwapInFlight(ts) == \E t \in ts : t.kind \in SwapKinds

\* setTimeout: a timer set while another one is pending, with a delay at
\* least as long as the delay the other one was set with, fires after it.
\* Each pending timer carries the delay it was set with and, in `after`,
\* the pending timers that are due before it.  The delays (ms): the cascade
\* of an accepted swap 200, the swap-back 300, the breaking animation 450,
\* the falling animation 400, the level / deadlock check 500 (300 after a
\* cascade without a match), the wait before the randomization 500.
TimerKey(t) == <<t.kind, t.ghost.id>>

DueBefore(pending, delay) ==
    {TimerKey(z) : z \in {y \in pending : y.kind \notin AlertKinds /\ y.delay <= delay}}

\* the timers still pending once timer t has fired
Fired(ts, t) == {[z EXCEPT !.after = @ \ {TimerKey(t)}] : z \in ts \ {t}}

TypesAt(h, board, matches) ==
    [t \in DOMAIN NoneCollected |->
        Cardinality({p \in matches : /\ board[p.row][p.col] # Null
                                     /\ h[board[p.row][p.col]].type = t})]

\* matches.forEach(... if (candy) currentCollected[candy.type]++ ...)
CollectedAfter(h, board, matches, collected) ==
    [t \in DOMAIN collected |-> collected[t] + TypesAt(h, board, matches)[t]]

\* boardWithMatches[row][col]!.isMatched = true, on the shared tiles
MarkMatched(h, board, matches) ==
    LET ids == {board[p.row][p.col] : p \in matches} \ {Null}
    IN  [i \in DOMAIN h |-> IF i \in ids THEN [h[i] EXCEPT !.isMatched = TRUE] ELSE h[i]]

\* the tile objects some board of the state, of a closure or of the
\* bookkeeping still refers to
LiveIds(st, ts, lst) ==
    IdsOf(st.board) \cup IdsOf(lst.ghost.pre.board)
        \cup UNION {IdsOf(t.board) \cup IdsOf(t.ghost.pre.board) : t \in ts}

NoGhost == [id |-> 0, pre |-> [board |-> <<>>], matched |-> 0, removed |-> NoneCollected]

\* an effect that sets the timer without asking checkLevelComplete
FailTimersWhateverTheObjective(st, ts) ==
    LET pending == {t.ghost.id : t \in {z \in ts : z.kind = "failTimer"}}
        id == IF pending = {} THEN 1 ELSE 1 + CHOOSE i \in pending : \A j \in pending : j <= i
    IN  IF /\ <<st.moves, st.isProcessing, st.score, st.level>>
                # <<gameState.moves, gameState.isProcessing, gameState.score, gameState.level>>
           /\ st.moves <= 0
           /\ ~st.isProcessing
        THEN {[kind |-> "failTimer", board |-> <<>>, level |-> st.level,
               ghost |-> [NoGhost EXCEPT !.id = id],
               delay |-> 500, after |-> DueBefore(ts, 500)]}
        ELSE {}

\* useEffect(..., [moves, isProcessing, score, level, checkLevelComplete]):
\* it runs after a commit that changed one of the four fields, and sets the
\* 500 ms timer of the Level Failed alert when no move is left, nothing is
\* processing and the objective is not met.  The timer keeps the level of
\* the state the effect saw.
FailTimers(st, ts) ==
    LET pending == {t.ghost.id : t \in {z \in ts : z.kind = "failTimer"}}
        id == IF pending = {} THEN 1 ELSE 1 + CHOOSE i \in pending : \A j \in pending : j <= i
    IN  IF /\ <<st.moves, st.isProcessing, st.score, st.level>>
                # <<gameState.moves, gameState.isProcessing, gameState.score, gameState.level>>
           /\ st.moves <= 0
           /\ ~st.isProcessing
           /\ ~checkLevelComplete(st)
        THEN {[kind |-> "failTimer", board |-> <<>>, level |-> st.level,
               ghost |-> [NoGhost EXCEPT !.id = id],
               delay |-> 500, after |-> DueBefore(ts, 500)]}
        ELSE {}

\* the step's writes: the state committed, the timers pending (those of the
\* step and the one of the effect that follows the commit), the objects
\* still reachable
Commit(h, st, ts, g, lst) ==
    /\ gameState' = st
    /\ tasks' = ts \cup FailTimers(st, ts)
    /\ rng' = g
    /\ last' = lst
    /\ heap' = [i \in DOMAIN h \cap LiveIds(st, ts, lst) |-> h[i]]
    /\ UNCHANGED <<call, cib>>

\* the record of a step: what it was, whether a swap was in flight when it
\* ran, the bookkeeping of the swap it belongs to
Step(kind, ghost) ==
    [kind |-> kind, inflight |-> SwapInFlight(tasks), ghost |-> ghost,
     iterations |-> 0, stillMatches |-> FALSE, level |-> 0,
     hadValidMove |-> FALSE]

\* a first line that looks at the busy flag only
PressIgnoredWhenBusy(st) == st.isProcessing

\* if (gameState.isProcessing || gameState.moves <= 0) return
PressIgnored(st) == st.isProcessing \/ st.moves <= 0

\* handleCandyPress(row, col).  A press that returns at the first line
\* (busy, or no moves left) changes nothing.
Press(row, col) ==
    /\ ~AlertOpen(tasks)
    /\ Pos(row, col) \in Positions(gameState.board)
    /\ gameState.board[row][col] # Null
    /\ UNCHANGED nReset
    /\ LET position == Pos(row, col)
           selected == gameState.selectedCandy
           swapped == swapCandies(heap, gameState.board, selected, position)
           matches == findMatches(swapped.heap, swapped.board)
           ghost == [id |-> nSwap + 1,
                     pre |-> [board |-> gameState.board, moves |-> gameState.moves,
                              score |-> gameState.score, level |-> gameState.level,
                              collectedColors |-> gameState.collectedColors],
                     matched |-> 0, removed |-> NoneCollected]
           swapping == /\ ~PressIgnored(gameState)
                       /\ selected # NoPos
                       /\ selected # position
                       /\ areAdjacent(selected, position)
       IN  \* the behaviours explored: at most MaxSwaps swap attempts, all of
           \* them before New Game is pressed
           /\ swapping => (nSwap < MaxSwaps /\ nReset = 0)
           /\ nSwap' = IF swapping THEN nSwap + 1 ELSE nSwap
           /\ IF PressIgnored(gameState)
              THEN UNCHANGED <<heap, gameState, tasks, rng, last, call, cib>>
              ELSE IF selected = NoPos
              THEN Commit(heap, [gameState EXCEPT !.selectedCandy = position], tasks, rng,
                          Step("select", NoGhost))
              ELSE IF selected = position
              THEN Commit(heap, [gameState EXCEPT !.selectedCandy = NoPos], tasks, rng,
                          Step("deselect", NoGhost))
              ELSE IF areAdjacent(selected, position)
              THEN IF matches # {}
                THEN Commit(swapped.heap,
                            [gameState EXCEPT !.isProcessing = TRUE,
                                              !.board = swapped.board,
                                              !.selectedCandy = NoPos,
                                              !.moves = gameState.moves - 1],
                            tasks \cup {[kind |-> "process", board |-> swapped.board,
                                         matches |-> matches, ghost |-> ghost,
                                         delay |-> 200,
                                         after |-> DueBefore(tasks, 200)]},
                            rng, Step("accept", ghost))
                ELSE Commit(swapped.heap,
                            [gameState EXCEPT !.isProcessing = TRUE],
                            tasks \cup {[kind |-> "revert", board |-> swapped.board,
                                         selectedCandy |-> selected,
                                         position |-> position, ghost |-> ghost,
                                         delay |-> 300,
                                         after |-> DueBefore(tasks, 300)]},
                            rng, Step("reject", ghost))
              ELSE Commit(heap, [gameState EXCEPT !.selectedCandy = position], tasks, rng,
                          Step("select", NoGhost))

\* the swap-back timer of a swap without a match
Revert ==
    \E t \in tasks :
        /\ t.kind = "revert"
        /\ t.after = {}
        /\ LET back == swapCandies(heap, t.board, t.selectedCandy, t.position)
           IN  Commit(back.heap,
                      [gameState EXCEPT !.board = back.board,
                                        !.selectedCandy = NoPos,
                                        !.isProcessing = FALSE],
                      Fired(tasks, t), rng, Step("revert", t.ghost))
        /\ UNCHANGED <<nSwap, nReset>>

\* after the while loop of processMatchesWithBoard: the score, the final
\* state, the timer of the level / deadlock check
Finish(board, L, ghost, rest) ==
    LET points == L.totalMatches * 10 * L.currentLevel
        updatedState == [gameStateRef EXCEPT !.board = board,
                                             !.score = L.currentScore + points,
                                             !.collectedColors = L.currentCollected,
                                             !.isProcessing = FALSE]
        done == [Step("finish", ghost) EXCEPT !.iterations = L.iterations,
                                              !.stillMatches = findMatches(heap, board) # {},
                                              !.level = L.currentLevel]
    IN  IF L.totalMatches > 0
        THEN Commit(heap, updatedState,
                    rest \cup {[kind |-> "check", board |-> board, levelCheck |-> TRUE,
                                updatedState |-> updatedState,
                                currentLevel |-> L.currentLevel, ghost |-> ghost,
                                delay |-> 500, after |-> DueBefore(rest, 500)]},
                    rng, done)
        ELSE Commit(heap, [gameState EXCEPT !.isProcessing = FALSE],
                    rest \cup {[kind |-> "check", board |-> board, levelCheck |-> FALSE,
                                updatedState |-> gameState,
                                currentLevel |-> L.currentLevel, ghost |-> ghost,
                                delay |-> 300, after |-> DueBefore(rest, 300)]},
                    rng, done)

\* a loop head whose cap is off by one: while (iterations <= maxIterations)
LoopHeadOffByOne(board, L, ghost, rest) ==
    LET matches == findMatches(heap, board)
        counted == [L EXCEPT !.iterations = L.iterations + 1,
                             !.totalMatches = L.totalMatches + Cardinality(matches),
                             !.currentCollected =
                                 CollectedAfter(heap, board, matches, L.currentCollected)]
        seen == [ghost EXCEPT !.matched = ghost.matched + Cardinality(matches)]
    IN  IF L.iterations <= maxIterations
        THEN IF matches = {}
             THEN Finish(board, [L EXCEPT !.iterations = L.iterations + 1], ghost, rest)
             ELSE Commit(MarkMatched(heap, board, matches),
                         [gameState EXCEPT !.board = board,
                                           !.collectedColors = counted.currentCollected],
                         rest \cup {[kind |-> "break", board |-> board, matches |-> matches,
                                     L |-> counted, ghost |-> seen,
                                     delay |-> 450, after |-> DueBefore(rest, 450)]},
                         rng,
                         [Step("matched", seen) EXCEPT !.iterations = counted.iterations])
        ELSE Finish(board, L, ghost, rest)

\* a loop that does not look at the board again after its first refill
LoopHeadOnePass(board, L, ghost, rest) ==
    LET matches == findMatches(heap, board)
        counted == [L EXCEPT !.iterations = L.iterations + 1,
                             !.totalMatches = L.totalMatches + Cardinality(matches),
                             !.currentCollected =
                                 CollectedAfter(heap, board, matches, L.currentCollected)]
        seen == [ghost EXCEPT !.matched = ghost.matched + Cardinality(matches)]
    IN  IF L.iterations < 1
        THEN IF matches = {}
             THEN Finish(board, [L EXCEPT !.iterations = L.iterations + 1], ghost, rest)
             ELSE Commit(MarkMatched(heap, board, matches),
                         [gameState EXCEPT !.board = board,
                                           !.collectedColors = counted.currentCollected],
                         rest \cup {[kind |-> "break", board |-> board, matches |-> matches,
                                     L |-> counted, ghost |-> seen,
                                     delay |-> 450, after |-> DueBefore(rest, 450)]},
                         rng,
                         [Step("matched", seen) EXCEPT !.iterations = counted.iterations])
        ELSE Finish(board, L, ghost, rest)

\* the head of the while loop and, when it is entered, the iteration up to
\* its first await
LoopHead(board, L, ghost, rest) ==
    LET matches == findMatches(heap, board)
        counted == [L EXCEPT !.iterations = L.iterations + 1,
                             !.totalMatches = L.totalMatches + Cardinality(matches),
                             !.currentCollected =
                                 CollectedAfter(heap, board, matches, L.currentCollected)]
        seen == [ghost EXCEPT !.matched = ghost.matched + Cardinality(matches)]
    IN  IF L.iterations < maxIterations
        THEN IF matches = {}
             THEN Finish(board, [L EXCEPT !.iterations = L.iterations + 1], ghost, rest)
             ELSE Commit(MarkMatched(heap, board, matches),
                         [gameState EXCEPT !.board = board,
                                           !.collectedColors = counted.currentCollected],
                         rest \cup {[kind |-> "break", board |-> board, matches |-> matches,
                                     L |-> counted, ghost |-> seen,
                                     delay |-> 450, after |-> DueBefore(rest, 450)]},
                         rng,
                         [Step("matched", seen) EXCEPT !.iterations = counted.iterations])
        ELSE Finish(board, L, ghost, rest)

\* processMatchesWithBoard(newBoard, matches) from its first line
ProcessStart ==
    \E t \in tasks :
        /\ t.kind = "process"
        /\ t.after = {}
        /\ LoopHead(t.board,
                    [totalMatches |-> 0, iterations |-> 0,
                     currentLevel |-> gameStateRef.level,
                     currentScore |-> gameStateRef.score,
                     currentCollected |->
                         CollectedAfter(heap, t.board, t.matches,
                                        gameStateRef.collectedColors)],
                    t.ghost, Fired(tasks, t))
        /\ UNCHANGED <<nSwap, nReset>>

\* after the breaking animation: removeMatches, applyGravity, the snapshot
AfterBreak ==
    \E t \in tasks :
        /\ t.kind = "break"
        /\ t.after = {}
        /\ LET fallen == applyGravity(heap, removeMatches(t.board, t.matches),
                                      t.L.currentLevel, rng)
               gone == TypesAt(heap, t.board, t.matches)
               ghost == [t.ghost EXCEPT !.removed =
                            [c \in DOMAIN gone |-> t.ghost.removed[c] + gone[c]]]
           IN  Commit(fallen.heap,
                      [gameState EXCEPT !.board = fallen.board,
                                        !.collectedColors = t.L.currentCollected],
                      Fired(tasks, t) \cup {[kind |-> "fall", board |-> fallen.board,
                                           L |-> t.L, ghost |-> ghost,
                                           delay |-> 400,
                                           after |-> DueBefore(Fired(tasks, t), 400)]},
                      fallen.rng, Step("fallen", ghost))
        /\ UNCHANGED <<nSwap, nReset>>

\* after the falling animation: back to the head of the loop
AfterFall ==
    \E t \in tasks :
        /\ t.kind = "fall"
        /\ t.after = {}
        /\ LoopHead(t.board, t.L, t.ghost, Fired(tasks, t))
        /\ UNCHANGED <<nSwap, nReset>>

\* the timer after the loop: checkLevelComplete, else
\* checkAndRandomizeIfNeeded up to its await
DeadlockCheck ==
    \E t \in tasks :
        /\ t.kind = "check"
        /\ t.after = {}
        /\ LET valid == hasValidMoves(heap, t.board)
           IN  IF t.levelCheck /\ checkLevelComplete(t.updatedState)
               THEN Commit(heap, gameState,
                           Fired(tasks, t) \cup {[kind |-> "levelComplete", board |-> t.board,
                                                nextLevel |-> t.currentLevel + 1,
                                                score |-> t.updatedState.score,
                                                ghost |-> t.ghost, after |-> {}]},
                           rng, Step("levelComplete", t.ghost))
               ELSE IF valid.result
               THEN Commit(valid.heap, gameState, Fired(tasks, t), rng,
                           Step("validMoves", t.ghost))
               ELSE Commit(valid.heap, gameState,
                           Fired(tasks, t) \cup {[kind |-> "randomize", board |-> t.board,
                                                ghost |-> t.ghost, delay |-> 500,
                                                after |-> DueBefore(Fired(tasks, t), 500)]},
                           rng, Step("deadlock", t.ghost))
        /\ UNCHANGED <<nSwap, nReset>>

\* checkAndRandomizeIfNeeded after its await
Randomize ==
    \E t \in tasks :
        /\ t.kind = "randomize"
        /\ t.after = {}
        /\ LET r == randomizeBoard(heap, t.board, gameStateRef.level, rng)
           IN  Commit(r.heap,
                      [gameState EXCEPT !.board = r.board, !.isProcessing = FALSE],
                      Fired(tasks, t), r.rng,
                      [Step("randomized", t.ghost) EXCEPT
                           !.hadValidMove = hasValidMoves(heap, gameState.board).result])
        /\ UNCHANGED <<nSwap, nReset>>

\* resetGame: the New Game button
ResetGame ==
    /\ ~AlertOpen(tasks)
    /\ nReset < MaxResets
    /\ nSwap <= MaxSwapsBeforeReset
    /\ nReset' = nReset + 1
    /\ UNCHANGED nSwap
    /\ LET levelConfig == getLevelConfig(1, {})
           b == createInitialBoard(heap, levelConfig.boardSize.rows,
                                   levelConfig.boardSize.cols, 1, rng)
       IN  Commit(b.heap, FreshState(b.board, levelConfig, 0), tasks, b.rng,
                  Step("reset", NoGhost))

(***************************************************************************)
(* The session after construction: a board createInitialBoard(4, 4, 1) can *)
(* return, and the random source at the start of its period.               *)
(***************************************************************************)
InitLayouts ==
    LET R == "red"  B == "blue"  G == "green"  Y == "yellow"
    IN  {<<G, B, R, B,
           Y, Y, G, B,
           R, G, B, G,
           B, Y, Y, R>>}

InitSession ==
    /\ \E layout \in InitLayouts, stream \in Streams :
          LET levelConfig == getLevelConfig(1, {})
              rows == levelConfig.boardSize.rows
              cols == levelConfig.boardSize.cols
              cells == [k \in 0 .. rows * cols - 1 |-> layout[k + 1]]
          IN  /\ heap = GridHeap(rows, cols, cells)
              /\ gameState = FreshState(GridBoard(rows, cols, cells), levelConfig, 0)
              /\ rng = [stream |-> stream, ptr |-> 1]
    /\ tasks = {}
    /\ nSwap = 0
    /\ nReset = 0
    /\ last = [kind |-> "init", inflight |-> FALSE, ghost |-> NoGhost,
               iterations |-> 0, stillMatches |-> FALSE, level |-> 0,
               hadValidMove |-> FALSE]
    /\ call = IdleCall
    /\ cib = IdleCib

\* the tiles the player presses
PressCells == {Pos(1, 2), Pos(2, 2), Pos(2, 3)}

Next ==
    \/ \E position \in PressCells : Press(position.row, position.col)
    \/ Revert
    \/ ProcessStart
    \/ AfterBreak
    \/ AfterFall
    \/ DeadlockCheck
    \/ Randomize
    \/ ResetGame

Spec == InitSession /\ [][Next]_vars


(***************************************************************************)
(* checkLevelComplete as a function of the state handed to it: the states  *)
(* of the levels 1 .. MaxLevel, on boards with any number of occupied      *)
(* cells, with each required colour at or one below its target.            *)
(***************************************************************************)
MaxLevel == 10

\* const numColors = Math.min(2 + Math.floor(level / 20), 4)
NumColors(level) == Min(2 + (level \div 20), 4)

InitCheck ==
    /\ \E level \in 1 .. MaxLevel :
          LET rows == getBoardSize(level).rows
              cols == getBoardSize(level).cols
              palette == {AvailableTypes(level)[i] : i \in 1 .. Len(AvailableTypes(level))}
          IN  \E occupied \in 0 .. rows * cols, selectedColors \in SUBSET palette :
                 \E reached \in SUBSET selectedColors :
                    LET config == getLevelConfig(level, selectedColors)
                        cells == [k \in 0 .. rows * cols - 1 |->
                                     IF k < occupied THEN "red" ELSE "none"]
                        fresh == FreshState(GridBoard(rows, cols, cells), config, 0)
                        collected ==
                            [t \in DOMAIN NoneCollected |->
                                IF t \in reached THEN config.objective.targetColors[t]
                                ELSE IF t \in selectedColors
                                THEN config.objective.targetColors[t] - 1
                                ELSE 0]
                    IN  /\ Cardinality(selectedColors) =
                              (IF level % 5 = 0 THEN NumColors(level) ELSE 0)
                        /\ heap = GridHeap(rows, cols, cells)
                        /\ call = [fn |-> "input",
                                   state |-> [fresh EXCEPT !.collectedColors = collected]]
    /\ gameState = IdleState
    /\ tasks = {}
    /\ rng = IdleRng
    /\ nSwap = 0
    /\ nReset = 0
    /\ last = IdleLast
    /\ cib = IdleCib

CallCheckLevelComplete ==
    /\ call.fn = "input"
    /\ call' = [fn |-> "checkLevelComplete", state |-> call.state,
                result |-> checkLevelComplete(call.state)]
    /\ UNCHANGED <<heap, gameState, tasks, rng, nSwap, nReset, last, cib>>

SpecCheckLevelComplete == InitCheck /\ [][CallCheckLevelComplete]_vars

(***************************************************************************)
(* The transition to the next level: the Continue button of the            *)
(* level-complete alert.  The alert is opened by the check that follows a  *)
(* cascade, so the transition is taken from the end of a cascade on a      *)
(* level whose objective can be satisfied (a collect_colors level), with   *)
(* every required colour at its target.                                    *)
(***************************************************************************)
\* a transition that forgets the score
NextLevelStateScoreLost(board, t, nextLevelConfig) ==
    [board |-> board, score |-> 0, moves |-> nextLevelConfig.moves,
     level |-> t.nextLevel, selectedCandy |-> NoPos, isProcessing |-> FALSE,
     objective |-> nextLevelConfig.objective, collectedColors |-> NoneCollected]

\* the argument of setGameState in the Continue handler
NextLevelState(board, t, nextLevelConfig) ==
    [board |-> board, score |-> t.score, moves |-> nextLevelConfig.moves,
     level |-> t.nextLevel, selectedCandy |-> NoPos, isProcessing |-> FALSE,
     objective |-> nextLevelConfig.objective, collectedColors |-> NoneCollected]

\* the colours getLevelConfig(level) can pick for its objective
\* colours to collect taken from all six types, whatever the level
AvailableColorsOfAnyLevel(level) == CANDY_TYPES

\* const availableColors = CANDY_TYPES.slice(0, Math.min(4 + ..., ...))
AvailableColors(level) == SubSeq(CANDY_TYPES, 1, Min(4 + (level \div 10), Len(CANDY_TYPES)))

ColorChoices(level) ==
    LET palette == {AvailableColors(level)[i] : i \in 1 .. Len(AvailableColors(level))}
    IN  {s \in SUBSET palette :
            Cardinality(s) = (IF level % 5 = 0 THEN NumColors(level) ELSE 0)}

\* Continue.  nextLevelConfig is computed when the alert is opened and read
\* by nothing before the button is pressed.  The step records the session
\* state the handler replaces.
Continue ==
    \E t \in {z \in tasks : z.kind = "levelComplete"} :
        /\ \E selectedColors \in ColorChoices(t.nextLevel) :
           LET nextLevelConfig == getLevelConfig(t.nextLevel, selectedColors)
               b == createInitialBoard(heap, nextLevelConfig.boardSize.rows,
                                       nextLevelConfig.boardSize.cols, t.nextLevel, rng)
               replaced == [board |-> <<>>, moves |-> gameState.moves,
                            score |-> gameState.score, level |-> gameState.level,
                            collectedColors |-> gameState.collectedColors]
           IN  Commit(b.heap, NextLevelState(b.board, t, nextLevelConfig),
                      tasks \ {t}, b.rng,
                      Step("continue", [t.ghost EXCEPT !.pre = replaced]))
        /\ UNCHANGED <<nSwap, nReset>>

CompletableLevels == {level \in 1 .. MaxLevel : level % 5 = 0}

CascadeEndScores == {0, 150}

\* the end of a cascade that satisfied the objective: updatedState is
\* committed and the 500 ms check timer is pending
InitLevelEnd ==
    /\ \E level \in CompletableLevels, layout \in InitLayouts, stream \in Streams,
          score \in CascadeEndScores :
          \E selectedColors \in ColorChoices(level) :
             LET levelConfig == getLevelConfig(level, selectedColors)
                 rows == levelConfig.boardSize.rows
                 cols == levelConfig.boardSize.cols
                 cells == [k \in 0 .. rows * cols - 1 |-> layout[k + 1]]
                 board == GridBoard(rows, cols, cells)
                 collected == [t \in DOMAIN NoneCollected |->
                                  IF t \in selectedColors
                                  THEN levelConfig.objective.targetColors[t] ELSE 0]
                 updatedState == [FreshState(board, levelConfig, score) EXCEPT
                                      !.moves = @ - 1, !.collectedColors = collected]
                 ghost == [NoGhost EXCEPT !.id = 1]
             IN  /\ heap = GridHeap(rows, cols, cells)
                 /\ gameState = updatedState
                 /\ rng = [stream |-> stream, ptr |-> 1]
                 /\ tasks = {[kind |-> "check", board |-> board, levelCheck |-> TRUE,
                              updatedState |-> updatedState, currentLevel |-> level,
                              ghost |-> ghost, delay |-> 500, after |-> {}]}
                 /\ last = [kind |-> "finish", inflight |-> FALSE, ghost |-> ghost,
                            iterations |-> 1, stillMatches |-> FALSE, level |-> level,
                            hadValidMove |-> FALSE]
    /\ nSwap = 0
    /\ nReset = 0
    /\ call = IdleCall
    /\ cib = IdleCib

NextLevelEnd ==
    \/ DeadlockCheck
    \/ Continue

SpecNextLevel == InitLevelEnd /\ [][NextLevelEnd]_vars

(***************************************************************************)
(* The last moves of a level: the session late in level 1, with MovesLeft  *)
(* moves of the budget left, and the Level Failed alert with its buttons.  *)
(***************************************************************************)
\* the 500 ms timer of the effect fires: Alert.alert('Level Failed', ...)
LevelFailedAlert ==
    \E t \in tasks :
        /\ t.kind = "failTimer"
        /\ t.after = {}
        /\ Commit(heap, gameState,
                  Fired(tasks, t) \cup {[kind |-> "levelFailed", board |-> <<>>,
                                       level |-> t.level, ghost |-> t.ghost,
                                       after |-> {}]},
                  rng, Step("levelFailed", t.ghost))
        /\ UNCHANGED <<nSwap, nReset>>

\* Try Again: a new board and the move budget of the level the effect saw;
\* score, level and objective stay those of the state.  Like New Game it
\* starts the level over, and is counted with the resets: the behaviours
\* explored hold at most MaxResets of them and no swap after one.
TryAgain ==
    \E t \in tasks :
        /\ t.kind = "levelFailed"
        /\ nReset < MaxResets
        /\ nReset' = nReset + 1
        /\ UNCHANGED nSwap
        /\ \E selectedColors \in ColorChoices(t.level) :
              LET levelConfig == getLevelConfig(t.level, selectedColors)
                  b == createInitialBoard(heap, levelConfig.boardSize.rows,
                                          levelConfig.boardSize.cols, t.level, rng)
              IN  Commit(b.heap,
                         [gameState EXCEPT !.board = b.board,
                                           !.moves = levelConfig.moves,
                                           !.selectedCandy = NoPos,
                                           !.isProcessing = FALSE,
                                           !.collectedColors = NoneCollected],
                         tasks \ {t}, b.rng, Step("tryAgain", t.ghost))

\* Main Menu: resetGame
MainMenu ==
    \E t \in tasks :
        /\ t.kind = "levelFailed"
        /\ nReset < MaxResets
        /\ nReset' = nReset + 1
        /\ UNCHANGED nSwap
        /\ LET levelConfig == getLevelConfig(1, {})
               b == createInitialBoard(heap, levelConfig.boardSize.rows,
                                       levelConfig.boardSize.cols, 1, rng)
           IN  Commit(b.heap, FreshState(b.board, levelConfig, 0), tasks \ {t}, b.rng,
                      Step("reset", NoGhost))

MovesLeft == 2

\* the session after the swaps that used up all but MovesLeft moves of
\* level 1: each of them matched 3 tiles of one colour (30 points, the
\* colour counted twice) and left a board without a match
InitLastMoves ==
    /\ \E layout \in InitLayouts, stream \in Streams :
          LET levelConfig == getLevelConfig(1, {})
              rows == levelConfig.boardSize.rows
              cols == levelConfig.boardSize.cols
              cells == [k \in 0 .. rows * cols - 1 |-> layout[k + 1]]
              played == levelConfig.moves - MovesLeft
              collected == [t \in DOMAIN NoneCollected |->
                               6 * Cardinality({k \in 1 .. played :
                                                   AvailableTypes(1)[(k % 4) + 1] = t})]
          IN  /\ heap = GridHeap(rows, cols, cells)
              /\ gameState = [FreshState(GridBoard(rows, cols, cells), levelConfig,
                                         30 * played)
                                  EXCEPT !.moves = MovesLeft,
                                         !.collectedColors = collected]
              /\ rng = [stream |-> stream, ptr |-> 1]
    /\ tasks = {}
    /\ nSwap = 0
    /\ nReset = 0
    /\ last = [kind |-> "init", inflight |-> FALSE, ghost |-> NoGhost,
               iterations |-> 0, stillMatches |-> FALSE, level |-> 0,
               hadValidMove |-> FALSE]
    /\ call = IdleCall
    /\ cib = IdleCib

NextLastMoves ==
    \/ Next
    \/ LevelFailedAlert
    \/ TryAgain
    \/ MainMenu

SpecLastMoves == InitLastMoves /\ [][NextLastMoves]_vars

(***************************************************************************)
(* swapCandies as a function: every grid of at most MaxGridCells cells     *)
(* over two types and empty cells, every two positions of the grid, and    *)
(* the swap applied once and then once more to its own result.             *)
(***************************************************************************)
MaxGridCells == 5

InitGridUpTo(maxCells) ==
    /\ \E rows \in 1 .. maxCells, cols \in 1 .. maxCells :
          /\ rows * cols <= maxCells
          /\ \E cells \in [0 .. rows * cols - 1 -> HarnessTypes \cup {"none"}] :
                /\ heap = GridHeap(rows, cols, cells)
                /\ call = [fn |-> "input", board |-> GridBoard(rows, cols, cells)]
    /\ gameState = IdleState
    /\ tasks = {}
    /\ rng = IdleRng
    /\ nSwap = 0
    /\ nReset = 0
    /\ last = IdleLast
    /\ cib = IdleCib

InitSmallGrid == InitGridUpTo(MaxGridCells)

CallSwapCandies ==
    /\ call.fn = "input"
    /\ \E pos1 \in Positions(call.board), pos2 \in Positions(call.board) :
          LET r == swapCandies(heap, call.board, pos1, pos2)
          IN  /\ call' = [fn |-> "swapCandies", board |-> call.board, heapBefore |-> heap,
                          pos1 |-> pos1, pos2 |-> pos2, result |-> r.board]
              /\ heap' = r.heap
    /\ UNCHANGED <<gameState, tasks, rng, nSwap, nReset, last, cib>>

\* swapCandies(swapCandies(grid, pos1, pos2), pos1, pos2)
CallSwapCandiesAgain ==
    /\ call.fn = "swapCandies"
    /\ LET r == swapCandies(heap, call.result, call.pos1, call.pos2)
       IN  /\ call' = [call EXCEPT !.fn = "swapCandiesTwice", !.result = r.board]
           /\ heap' = r.heap
    /\ UNCHANGED <<gameState, tasks, rng, nSwap, nReset, last, cib>>

NextSwapCandies ==
    \/ CallSwapCandies
    \/ CallSwapCandiesAgain

SpecSwapCandies == InitSmallGrid /\ [][NextSwapCandies]_vars

(***************************************************************************)
(* applyGravity as a function: every grid of at most MaxGridCells cells    *)
(* with any of its cells empty, on level 1, with every random stream; and  *)
(* applyGravity(removeMatches(grid, matches), level) for every grid of at  *)
(* most MaxFallCells cells and every set of positions of the grid.         *)
(***************************************************************************)
CallApplyGravity ==
    /\ call.fn = "input"
    /\ \E stream \in Streams :
          LET r == applyGravity(heap, call.board, 1, [stream |-> stream, ptr |-> 1])
          IN  /\ call' = [fn |-> "applyGravity", board |-> call.board, heapBefore |-> heap,
                          result |-> r.board]
              /\ heap' = r.heap
              /\ rng' = r.rng
    /\ UNCHANGED <<gameState, tasks, nSwap, nReset, last, cib>>

SpecApplyGravity == InitSmallGrid /\ [][CallApplyGravity]_vars

MaxFallCells == 4

InitFallGrid == InitGridUpTo(MaxFallCells)

CallRemoveAndFall ==
    /\ call.fn = "input"
    /\ \E matches \in SUBSET Positions(call.board), stream \in Streams :
          LET r == applyGravity(heap, removeMatches(call.board, matches), 1,
                                [stream |-> stream, ptr |-> 1])
          IN  /\ call' = [fn |-> "removeAndFall", board |-> call.board, heapBefore |-> heap,
                          matches |-> matches, result |-> r.board]
              /\ heap' = r.heap
              /\ rng' = r.rng
    /\ UNCHANGED <<gameState, tasks, nSwap, nReset, last, cib>>

SpecRemoveAndFall == InitFallGrid /\ [][CallRemoveAndFall]_vars

(***************************************************************************)
(* getBoardSize as a function of the level, for the levels 1 ..            *)
(* MaxBoardLevel.                                                          *)
(***************************************************************************)
MaxBoardLevel == 1000

InitBoardSize ==
    /\ \E level \in 1 .. MaxBoardLevel : call = [fn |-> "input", level |-> level]
    /\ heap = <<>>
    /\ gameState = IdleState
    /\ tasks = {}
    /\ rng = IdleRng
    /\ nSwap = 0
    /\ nReset = 0
    /\ last = IdleLast
    /\ cib = IdleCib

CallGetBoardSize ==
    /\ call.fn = "input"
    /\ call' = [fn |-> "getBoardSize", level |-> call.level,
                result |-> getBoardSize(call.level)]
    /\ UNCHANGED <<heap, gameState, tasks, rng, nSwap, nReset, last, cib>>

SpecBoardSize == InitBoardSize /\ [][CallGetBoardSize]_vars

(***************************************************************************)
(* getLevelConfig as a function of the level and of the colours its        *)
(* shuffle (sort(() => Math.random() - 0.5)) puts first, for the levels    *)
(* 1 .. MaxConfigLevel; and a second call for the same level.              *)
(***************************************************************************)
MaxConfigLevel == 1700

InitLevelConfig ==
    /\ \E level \in 1 .. MaxConfigLevel : call = [fn |-> "input", level |-> level]
    /\ heap = <<>>
    /\ gameState = IdleState
    /\ tasks = {}
    /\ rng = IdleRng
    /\ nSwap = 0
    /\ nReset = 0
    /\ last = IdleLast
    /\ cib = IdleCib

CallGetLevelConfig ==
    /\ call.fn = "input"
    /\ \E selectedColors \in ColorChoices(call.level) :
          call' = [fn |-> "getLevelConfig", level |-> call.level,
                   result |-> getLevelConfig(call.level, selectedColors)]
    /\ UNCHANGED <<heap, gameState, tasks, rng, nSwap, nReset, last, cib>>

\* getLevelConfig(level) called once more
CallGetLevelConfigAgain ==
    /\ call.fn = "getLevelConfig"
    /\ \E selectedColors \in ColorChoices(call.level) :
          call' = [fn |-> "getLevelConfigTwice", level |-> call.level,
                   first |-> call.result,
                   result |-> getLevelConfig(call.level, selectedColors)]
    /\ UNCHANGED <<heap, gameState, tasks, rng, nSwap, nReset, last, cib>>

NextLevelConfig ==
    \/ CallGetLevelConfig
    \/ CallGetLevelConfigAgain

SpecLevelConfig == InitLevelConfig /\ [][NextLevelConfig]_vars

(***************************************************************************)
(* areAdjacent as a function of two positions with rows and columns in     *)
(* 0 .. MaxCoord.                                                          *)
(***************************************************************************)
MaxCoord == 3

InitAdjacent ==
    /\ \E r1, c1, r2, c2 \in 0 .. MaxCoord :
          call = [fn |-> "input", pos1 |-> Pos(r1, c1), pos2 |-> Pos(r2, c2)]
    /\ heap = <<>>
    /\ gameState = IdleState
    /\ tasks = {}
    /\ rng = IdleRng
    /\ nSwap = 0
    /\ nReset = 0
    /\ last = IdleLast
    /\ cib = IdleCib

CallAreAdjacent ==
    /\ call.fn = "input"
    /\ call' = [fn |-> "areAdjacent", pos1 |-> call.pos1, pos2 |-> call.pos2,
                result |-> areAdjacent(call.pos1, call.pos2)]
    /\ UNCHANGED <<heap, gameState, tasks, rng, nSwap, nReset, last, cib>>

SpecAdjacent == InitAdjacent /\ [][CallAreAdjacent]_vars

(***************************************************************************)
(* The randomizer as a function: a 4 x 4 board of level 1 without a valid  *)
(* move, and a random source that draws from the whole palette of the      *)
(* level and repeats after 5 or after 8 draws (two rows a b c d / c d a b).*)
(***************************************************************************)
DeadlockLayouts ==
    LET R == "red"  B == "blue"  G == "green"  Y == "yellow"
    IN  {<<R, B, G, Y,
           G, Y, R, B,
           R, B, G, Y,
           G, Y, R, B>>}

RandomizerStreams ==
    LET draws == 0 .. Len(AvailableTypes(1)) - 1
    IN  {<<a, b, c, d, e>> :
             a \in draws, b \in draws, c \in draws, d \in draws, e \in draws}
            \cup {<<a, b, c, d, c, d, a, b>> :
                     a \in draws, b \in draws, c \in draws, d \in draws}

InitRandomizer ==
    /\ \E layout \in DeadlockLayouts, stream \in RandomizerStreams :
          LET rows == getBoardSize(1).rows
              cols == getBoardSize(1).cols
              cells == [k \in 0 .. rows * cols - 1 |-> layout[k + 1]]
          IN  /\ heap = GridHeap(rows, cols, cells)
              /\ call = [fn |-> "input", board |-> GridBoard(rows, cols, cells)]
              /\ rng = [stream |-> stream, ptr |-> 1]
    /\ gameState = IdleState
    /\ tasks = {}
    /\ nSwap = 0
    /\ nReset = 0
    /\ last = IdleLast
    /\ cib = IdleCib

CallRandomizeBoard ==
    /\ call.fn = "input"
    /\ LET r == randomizeBoard(heap, call.board, 1, rng)
       IN  /\ call' = [fn |-> "randomizeBoard", board |-> call.board,
                       result |-> r.board, attempts |-> r.attempts,
                       fallback |-> r.fallback]
           /\ heap' = r.heap
           /\ rng' = r.rng
    /\ UNCHANGED <<gameState, tasks, nSwap, nReset, last, cib>>

SpecRandomizer == InitRandomizer /\ [][CallRandomizeBoard]_vars

(***************************************************************************)
(* The tiles made for a level: a 2 x 2 board of the generator and the      *)
(* refill of an empty column of two cells, with a random source that draws *)
(* from the whole palette of the level and repeats after two draws.        *)
(***************************************************************************)
MaxPaletteLevel == 30

InitTiles ==
    /\ \E level \in 1 .. MaxPaletteLevel :
          \E stream \in [1 .. 2 -> 0 .. Len(AvailableTypes(level)) - 1] :
             /\ call = [fn |-> "input", level |-> level]
             /\ rng = [stream |-> stream, ptr |-> 1]
    /\ heap = GridHeap(2, 1, [k \in 0 .. 1 |-> "none"])
    /\ gameState = IdleState
    /\ tasks = {}
    /\ nSwap = 0
    /\ nReset = 0
    /\ last = IdleLast
    /\ cib = IdleCib

CallCreateInitialBoard ==
    /\ call.fn = "input"
    /\ LET r == createInitialBoard(heap, 2, 2, call.level, rng)
       IN  /\ call' = [fn |-> "createInitialBoard", level |-> call.level,
                       result |-> r.board]
           /\ heap' = r.heap
           /\ rng' = r.rng
    /\ UNCHANGED <<gameState, tasks, nSwap, nReset, last, cib>>

CallRefill ==
    /\ call.fn = "input"
    /\ LET r == applyGravity(heap, GridBoard(2, 1, [k \in 0 .. 1 |-> "none"]),
                             call.level, rng)
       IN  /\ call' = [fn |-> "applyGravity", level |-> call.level, result |-> r.board]
           /\ heap' = r.heap
           /\ rng' = r.rng
    /\ UNCHANGED <<gameState, tasks, nSwap, nReset, last, cib>>

NextTiles == CallCreateInitialBoard \/ CallRefill

SpecTiles == InitTiles /\ [][NextTiles]_vars

(***************************************************************************)
(* The session between two resets, in the wait of a deadlock               *)
(* randomization.  Swap (2,2)-(2,3) of the initial board took the three    *)
(* blue tiles of column 3 and the refill gave blue, red, blue: 30 points,  *)
(* 6 blue collected, a board without a valid move.  The check found the    *)
(* deadlock and waits its 500 ms; in the wait the player, with (1,2)       *)
(* selected, pressed (2,2): no match, the swap-back timer is pending.      *)
(* nSwap counts that swap.                                                 *)
(***************************************************************************)
DeadlockedLayouts ==
    LET R == "red"  B == "blue"  G == "green"  Y == "yellow"
    IN  {<<G, B, R, B,
           Y, Y, G, R,
           R, G, G, B,
           B, Y, Y, R>>}

\* the refills draw red and blue in turn
RefillStreams == {<<0, 1>>}

InitDeadlocked ==
    /\ \E layout \in DeadlockedLayouts, stream \in RefillStreams :
          LET levelConfig == getLevelConfig(1, {})
              rows == levelConfig.boardSize.rows
              cols == levelConfig.boardSize.cols
              cells == [k \in 0 .. rows * cols - 1 |-> layout[k + 1]]
              board == GridBoard(rows, cols, cells)
              selected == Pos(1, 2)
              position == Pos(2, 2)
              swapped == swapCandies(GridHeap(rows, cols, cells), board, selected, position)
              pressed == [FreshState(board, levelConfig, 30) EXCEPT
                              !.moves = @ - 1,
                              !.collectedColors = [NoneCollected EXCEPT !["blue"] = 6],
                              !.selectedCandy = selected,
                              !.isProcessing = TRUE]
              ghost == [id |-> 1,
                        pre |-> [board |-> board, moves |-> pressed.moves,
                                 score |-> pressed.score, level |-> pressed.level,
                                 collectedColors |-> pressed.collectedColors],
                        matched |-> 0, removed |-> NoneCollected]
          IN  /\ heap = swapped.heap
              /\ gameState = pressed
              /\ rng = [stream |-> stream, ptr |-> 1]
              /\ tasks = {[kind |-> "randomize", board |-> board,
                           ghost |-> [NoGhost EXCEPT !.id = 0], delay |-> 500,
                           after |-> {}],
                          [kind |-> "revert", board |-> swapped.board,
                           selectedCandy |-> selected, position |-> position,
                           ghost |-> ghost, delay |-> 300, after |-> {}]}
              /\ last = [kind |-> "reject", inflight |-> FALSE, ghost |-> ghost,
                         iterations |-> 0, stillMatches |-> FALSE, level |-> 0,
                         hadValidMove |-> FALSE]
    /\ nSwap = 1
    /\ nReset = 0
    /\ call = IdleCall
    /\ cib = IdleCib

\* the two tiles the player keeps pressing
SwapCells == {Pos(1, 2), Pos(2, 2)}

NextBetweenResets ==
    \/ \E position \in SwapCells : Press(position.row, position.col)
    \/ Revert
    \/ ProcessStart
    \/ AfterBreak
    \/ AfterFall
    \/ DeadlockCheck
    \/ Randomize

SpecBetweenResets == InitDeadlocked /\ [][NextBetweenResets]_vars

(***************************************************************************)
(* The last move of a level with a collect_colors objective: the swap was  *)
(* accepted at 1 move left, its cascade removed one run, the board after   *)
(* gravity is stable and the 400 ms wait of the falling animation is       *)
(* pending.  The counts collected either meet every target or miss one of  *)
(* them by 1.                                                              *)
(***************************************************************************)
InitLastCascade ==
    /\ \E level \in CompletableLevels, layout \in InitLayouts \cup DeadlockLayouts,
          stream \in Streams, short \in {0, 1} :
          \E selectedColors \in ColorChoices(level) :
             LET levelConfig == getLevelConfig(level, selectedColors)
                 rows == levelConfig.boardSize.rows
                 cols == levelConfig.boardSize.cols
                 cells == [k \in 0 .. rows * cols - 1 |-> layout[k + 1]]
                 board == GridBoard(rows, cols, cells)
                 missed == CHOOSE c \in selectedColors : TRUE
                 collected == [t \in DOMAIN NoneCollected |->
                                  IF t \in selectedColors
                                  THEN levelConfig.objective.targetColors[t]
                                           - (IF t = missed THEN short ELSE 0)
                                  ELSE 0]
                 shown == [FreshState(board, levelConfig, 0) EXCEPT
                               !.moves = 0, !.isProcessing = TRUE,
                               !.collectedColors = collected]
                 ghost == [id |-> 1,
                           pre |-> [board |-> board, moves |-> 1, score |-> 0,
                                    level |-> level, collectedColors |-> NoneCollected],
                           matched |-> 3, removed |-> NoneCollected]
             IN  /\ heap = GridHeap(rows, cols, cells)
                 /\ gameState = shown
                 /\ rng = [stream |-> stream, ptr |-> 1]
                 /\ tasks = {[kind |-> "fall", board |-> board,
                              L |-> [totalMatches |-> 3, iterations |-> 1,
                                     currentLevel |-> level, currentScore |-> 0,
                                     currentCollected |-> collected],
                              ghost |-> ghost, delay |-> 400, after |-> {}]}
                 /\ last = [Step("fallen", ghost) EXCEPT !.inflight = TRUE]
    /\ nSwap = 0
    /\ nReset = 0
    /\ call = IdleCall
    /\ cib = IdleCib

NextLastCascade ==
    \/ AfterFall
    \/ DeadlockCheck
    \/ Randomize
    \/ Continue
    \/ LevelFailedAlert
    \/ TryAgain
    \/ MainMenu

SpecLastCascade == InitLastCascade /\ [][NextLastCascade]_vars

(***************************************************************************)
(* The claims about a session.  `last` is the step that led to the state;  *)
(* last.ghost is the bookkeeping of the swap the step belongs to: the      *)
(* state at its press (pre), the positions findMatches returned in its     *)
(* loop (matched), the tiles its cascade took off the board (removed).     *)
(***************************************************************************)

\* C4: at most one swap is in flight: a tile press handled between the press
\* that starts a swap and the end of that swap's revert or cascade never
\* starts a second swap (neither an accepted one, which changes the board
\* and decrements moves, nor one that is swapped back).
C4_NoSwapStartedWhileInFlight ==
    ~(last.kind \in {"accept", "reject"} /\ last.inflight)

\* C5: when the revert of a swap without a match completes, the board holds
\* the same tile in every cell as before the press, moves, score, level and
\* the collected counts are those before the press, nothing is selected and
\* the busy flag is false.
C5_RevertRestoresState ==
    last.kind = "revert" =>
        /\ gameState.board = last.ghost.pre.board
        /\ gameState.moves = last.ghost.pre.moves
        /\ gameState.score = last.ghost.pre.score
        /\ gameState.level = last.ghost.pre.level
        /\ gameState.collectedColors = last.ghost.pre.collectedColors
        /\ gameState.selectedCandy = NoPos
        /\ ~gameState.isProcessing

\* C6: an accepted swap decrements moves by exactly 1, and from its press to
\* the end of its cascade moves stays at that value.
C6_AcceptedSwapCostsOneMove ==
    last.kind \in {"accept", "matched", "fallen", "finish"} =>
        gameState.moves = last.ghost.pre.moves - 1

\* C7: when the cascade of an accepted swap ends, the score is the score
\* before the swap plus matchedCount x 10 x level: matchedCount the number
\* of positions findMatches returned over the iterations, level the level
\* at the start of the cascade.
C7_ScoreAtCascadeEnd ==
    last.kind = "finish" =>
        gameState.score = last.ghost.pre.score + last.ghost.matched * 10 * last.level

\* C8: when the cascade of an accepted swap ends, the collected count of each
\* type is its value before the swap plus the number of tiles of that type
\* the cascade removed from the board.
C8_CollectedOncePerMatchedTile ==
    last.kind = "finish" =>
        \A t \in DOMAIN NoneCollected :
            gameState.collectedColors[t] =
                last.ghost.pre.collectedColors[t] + last.ghost.removed[t]

\* C9: the loop of a cascade performs at most 20 match-remove-refill
\* iterations; when it stops, at the cap with matches still on the grid
\* included, the busy flag is cleared.
C9_CascadeStopsAtCap ==
    /\ \A t \in tasks : t.kind \in {"break", "fall"} => t.L.iterations <= 20
    /\ last.kind \in {"matched", "finish"} => last.iterations <= 20
    /\ last.kind = "finish" => ~gameState.isProcessing

\* a cascade stopped by the cap: 20 iterations done, the grid still holds a
\* match, the busy flag is cleared
C9_Witness ==
    /\ last.kind = "finish"
    /\ last.iterations = 20
    /\ last.stillMatches
    /\ last.ghost.matched >= 20 * 3
    /\ ~gameState.isProcessing

C11_CollectColorsCompleteIffTargetsMet ==
    (call.fn = "checkLevelComplete" /\ call.state.objective.type = "collect_colors") =>
        (call.result <=>
            \A t \in DOMAIN call.state.objective.targetColors :
                call.state.collectedColors[t] >= call.state.objective.targetColors[t])

\* a CollectColors state with every required type exactly at its target and
\* the other types at 0: the level is complete
C11_Witness ==
    /\ call.fn = "checkLevelComplete"
    /\ call.state.objective.type = "collect_colors"
    /\ DOMAIN call.state.objective.targetColors # {}
    /\ \A t \in DOMAIN call.state.objective.targetColors :
          call.state.collectedColors[t] = call.state.objective.targetColors[t]
    /\ \E t \in DOMAIN NoneCollected : call.state.collectedColors[t] = 0
    /\ call.result

C13_LevelFailedOnlyWhenOutOfMoves ==
    last.kind = "levelFailed" =>
        /\ gameState.moves <= 0
        /\ ~SwapInFlight(tasks)
        /\ ~checkLevelComplete(gameState)

\* C14: in the grid of the session state every occupied cell (r, c) holds a
\* tile whose row field is r and whose col field is c, after any sequence
\* of swaps, reverts, cascades and deadlock checks.
C14_TilesKnowTheirCell ==
    \A p \in Positions(gameState.board) :
        gameState.board[p.row][p.col] # Null =>
            /\ heap[gameState.board[p.row][p.col]].row = p.row
            /\ heap[gameState.board[p.row][p.col]].col = p.col

\* C15: swapCandies is pure: after the call the grid it was given holds the
\* same tiles, and every tile of it has the type, row, col and flags it had
\* before the call.
C15_SwapCandiesLeavesGivenGrid ==
    call.fn = "swapCandies" =>
        \A id \in IdsOf(call.board) : heap[id] = call.heapBefore[id]

\* C16: hasValidMoves and findMatches have no side effects: after the call
\* every tile of the grid they were given has the type, row, col and flags
\* it had before.
C16_ScansLeaveGivenGrid ==
    call.fn \in {"hasValidMoves", "findMatches"} =>
        \A id \in IdsOf(call.board) : heap[id] = call.heapBefore[id]

\* C17: swapping the same two positions twice gives back the type layout:
\* every cell holds a tile of the type it held in the given grid, or is
\* empty as it was.
C17_SwapTwiceRestoresTypes ==
    call.fn = "swapCandiesTwice" =>
        /\ DOMAIN call.result = DOMAIN call.board
        /\ \A p \in Positions(call.board) :
              /\ (call.result[p.row][p.col] = Null) <=> (call.board[p.row][p.col] = Null)
              /\ call.board[p.row][p.col] # Null =>
                    heap[call.result[p.row][p.col]].type
                        = call.heapBefore[call.board[p.row][p.col]].type

\* two tiles of different types in different cells, swapped twice
C17_Witness ==
    /\ call.fn = "swapCandiesTwice"
    /\ call.pos1 # call.pos2
    /\ call.board[call.pos1.row][call.pos1.col] # Null
    /\ call.board[call.pos2.row][call.pos2.col] # Null
    /\ call.heapBefore[call.board[call.pos1.row][call.pos1.col]].type
          # call.heapBefore[call.board[call.pos2.row][call.pos2.col]].type
    /\ ~areAdjacent(call.pos1, call.pos2)

\* the occupied cells of column col below row `row` in the grid
Below(board, row, col) ==
    Cardinality({r \in DOMAIN board : r > row /\ board[r][col] # Null})

Survivors(board, col) ==
    Cardinality({r \in DOMAIN board : board[r][col] # Null})

\* C18: applyGravity moves the k surviving tiles of each column to the
\* bottom k rows of that column in the same top-to-bottom order, and the
\* rows above them hold newly created tiles, each one a tile of its own; no
\* survivor changes column, is lost or appears twice.
C18_GravityPacksColumns ==
    call.fn = "applyGravity" =>
        LET rows == NumRows(call.board)
        IN  /\ DOMAIN call.result = DOMAIN call.board
            /\ \A p \in Positions(call.board) :
                  /\ call.board[p.row][p.col] # Null =>
                        call.result[rows - 1 - Below(call.board, p.row, p.col)][p.col]
                            = call.board[p.row][p.col]
                  /\ p.row < rows - Survivors(call.board, p.col) =>
                        /\ call.result[p.row][p.col] # Null
                        /\ call.result[p.row][p.col] \notin DOMAIN call.heapBefore
                        /\ call.result[p.row][p.col] \in DOMAIN heap
                  /\ \A q \in Positions(call.board) :
                        call.result[p.row][p.col] = call.result[q.row][q.col] => p = q

\* a column with two survivors, an empty cell between them and an empty
\* cell under the lower one
C18_Witness ==
    /\ call.fn = "applyGravity"
    /\ \E c \in 0 .. NumCols(call.board) - 1 :
          \E r1, r2, r3, r4 \in DOMAIN call.board :
             /\ r1 < r2 /\ r2 < r3 /\ r3 < r4
             /\ call.board[r1][c] # Null
             /\ call.board[r2][c] = Null
             /\ call.board[r3][c] # Null
             /\ call.board[r4][c] = Null
             /\ call.result[r4][c] = call.board[r3][c]
             /\ call.result[r3][c] = call.board[r1][c]

\* C19: applyGravity(removeMatches(grid, matches), level) has no empty cell
\* and the rows and columns of grid, for every grid and every set of match
\* positions of the grid.
C19_RefillLeavesNoEmptyCell ==
    call.fn = "removeAndFall" =>
        /\ DOMAIN call.result = DOMAIN call.board
        /\ \A r \in DOMAIN call.board :
              /\ DOMAIN call.result[r] = DOMAIN call.board[r]
              /\ \A c \in DOMAIN call.board[r] : call.result[r][c] # Null

\* several tiles of a grid with an empty cell removed, one of them in the
\* top row and one that has a tile above it
C19_Witness ==
    /\ call.fn = "removeAndFall"
    /\ Cardinality(call.matches) >= 2
    /\ \E p \in call.matches : p.row = 0 /\ call.board[p.row][p.col] # Null
    /\ \E p \in call.matches :
          /\ p.row > 0
          /\ call.board[p.row][p.col] # Null
          /\ call.board[p.row - 1][p.col] # Null
          /\ Pos(p.row - 1, p.col) \notin call.matches
    /\ \E p \in Positions(call.board) : call.board[p.row][p.col] = Null
    /\ \A p \in Positions(call.board) : call.result[p.row][p.col] # Null

\* the last level of each size but the largest: 4 x 4 up to level 10,
\* 5 x 5 up to 30, ... 10 x 10 up to 700
SizeSteps == <<10, 30, 60, 100, 200, 400, 700>>

\* C20: getBoardSize(level) is square and never smaller than the size of a
\* lower level; it is 4x4 for levels 1-10, 5x5 for 11-30, 6x6 for 31-60,
\* 7x7 for 61-100, 8x8 for 101-200, 9x9 for 201-400, 10x10 for 401-700 and
\* 11x11 above 700.
C20_BoardSizeTable ==
    call.fn = "getBoardSize" =>
        /\ call.result.rows = call.result.cols
        /\ call.result.rows
              = 4 + Cardinality({i \in DOMAIN SizeSteps : call.level > SizeSteps[i]})
        /\ \A lower \in 1 .. call.level : getBoardSize(lower).rows <= call.result.rows
        /\ call.level = 10 => call.result = [rows |-> 4, cols |-> 4]
        /\ call.level = 11 => call.result = [rows |-> 5, cols |-> 5]
        /\ call.level = 1000 => call.result = [rows |-> 11, cols |-> 11]

\* the first level of the largest size
C20_Witness ==
    /\ call.fn = "getBoardSize"
    /\ call.level = 701
    /\ call.result = [rows |-> 11, cols |-> 11]

\* 2 x floor(1.5 x cells) is 3 x cells when cells is even, 3 x cells - 1
\* when it is odd
FloorOneAndAHalf(cells) == CHOOSE n \in 0 .. 2 * cells : 2 * n <= 3 * cells /\ 3 * cells < 2 * n + 2

\* C21: getLevelConfig(level).moves is max(15, floor(1.5 x rows x cols) -
\* floor(level / 10)) for the board size of the level, and is never below 15.
C21_MoveBudget ==
    call.fn = "getLevelConfig" =>
        LET cells == getBoardSize(call.level).rows * getBoardSize(call.level).cols
            tens == CHOOSE n \in 0 .. call.level :
                        10 * n <= call.level /\ call.level < 10 * n + 10
            budget == FloorOneAndAHalf(cells) - tens
        IN  /\ call.result.moves = (IF budget > 15 THEN budget ELSE 15)
            /\ call.result.moves >= 15
            /\ call.result.boardSize = getBoardSize(call.level)

\* a level so high that the floor of 15 is what the budget is
C21_Witness ==
    /\ call.fn = "getLevelConfig"
    /\ call.result.moves = 15
    /\ FloorOneAndAHalf(121) - (call.level \div 10) < 15

\* C22: getLevelConfig(level) has a CollectColors objective exactly when
\* level mod 5 = 0 and a ClearBoard objective otherwise; a CollectColors
\* objective has min(2 + floor(level / 20), 4) distinct required types of
\* the palette of the level, each with the target floor(cells x 0.4) +
\* floor(level / 5); for level 25 the types are 3.
C22_ObjectiveOfLevel ==
    call.fn = "getLevelConfig" =>
        LET objective == call.result.objective
            required == DOMAIN objective.targetColors
            cells == getBoardSize(call.level).rows * getBoardSize(call.level).cols
            fifths == CHOOSE n \in 0 .. call.level :
                          5 * n <= call.level /\ call.level < 5 * n + 5
            twentieths == CHOOSE n \in 0 .. call.level :
                              20 * n <= call.level /\ call.level < 20 * n + 20
            target == (CHOOSE n \in 0 .. cells : 5 * n <= 2 * cells /\ 2 * cells < 5 * n + 5)
                          + fifths
        IN  /\ (objective.type = "collect_colors") <=> (call.level = 5 * fifths)
            /\ (objective.type = "clear_board") <=> (call.level # 5 * fifths)
            /\ objective.type = "collect_colors" =>
                  /\ Cardinality(required)
                        = (IF 2 + twentieths < 4 THEN 2 + twentieths ELSE 4)
                  /\ \A color \in required : objective.targetColors[color] = target
                  /\ required \subseteq {CANDY_TYPES[i] : i \in 1 .. Len(CANDY_TYPES)}
            /\ call.level = 25 =>
                  objective.type = "collect_colors" /\ Cardinality(required) = 3

\* the scenario of the design: level 25, three required types, target
\* floor(25 x 0.4) + 5 = 15
C22_Witness ==
    /\ call.fn = "getLevelConfig"
    /\ call.level = 25
    /\ call.result.objective.type = "collect_colors"
    /\ Cardinality(DOMAIN call.result.objective.targetColors) = 3
    /\ \A color \in DOMAIN call.result.objective.targetColors :
          call.result.objective.targetColors[color] = 15

\* C23: two calls of getLevelConfig with the same level return the same
\* move budget, board size and objective, the required types and their
\* targets included.
C23_LevelConfigDeterministic ==
    call.fn = "getLevelConfigTwice" =>
        /\ call.result.moves = call.first.moves
        /\ call.result.boardSize = call.first.boardSize
        /\ call.result.objective = call.first.objective

\* C24: areAdjacent(p1, p2) is true if and only if p1 and p2 differ by
\* exactly 1 in one of row and column and by 0 in the other; it is
\* symmetric, false for p1 = p2, false for diagonal neighbours and false
\* for cells two apart such as (0,2) and (2,2).
C24_AdjacentIffOneStep ==
    call.fn = "areAdjacent" =>
        LET dr == call.pos1.row - call.pos2.row
            dc == call.pos1.col - call.pos2.col
        IN  /\ call.result <=> (dr * dr + dc * dc = 1)
            /\ call.result = areAdjacent(call.pos2, call.pos1)
            /\ call.pos1 = call.pos2 => ~call.result
            /\ (dr * dr = 1 /\ dc * dc = 1) => ~call.result
            /\ (call.pos1 = Pos(0, 2) /\ call.pos2 = Pos(2, 2)) => ~call.result

\* the pair of the design, two cells apart in one column, found not adjacent
C24_Witness ==
    /\ call.fn = "areAdjacent"
    /\ call.pos1 = Pos(0, 2)
    /\ call.pos2 = Pos(2, 2)
    /\ ~call.result

\* C25: the randomizer replaces the session board only when that board has
\* no valid move: hasValidMoves is false for the board of the session state
\* at the moment the randomized board takes its place.
C25_RandomizedOnlyWithoutValidMove ==
    last.kind = "randomized" => ~last.hadValidMove

\* C26: deadlock recovery ends within a bounded number of reassignment
\* attempts and the board it installs has at least one valid move, the
\* fresh board it falls back to included.
C26_RecoveryInstallsValidMove ==
    call.fn = "randomizeBoard" =>
        /\ call.attempts <= RandomizeAttempts
        /\ hasValidMoves(heap, call.result).result

\* C27: every tile made for a level, by the generator or by the refill of
\* gravity, has a type among the first min(4 + floor(level / 10), 6) of
\* red, blue, green, yellow, purple, orange.
C27_TilesWithinPalette ==
    call.fn \in {"createInitialBoard", "applyGravity"} =>
        LET palette == <<"red", "blue", "green", "yellow", "purple", "orange">>
            count == IF call.level < 10 THEN 4 ELSE IF call.level < 20 THEN 5 ELSE 6
        IN  \A p \in Positions(call.result) :
               /\ call.result[p.row][p.col] # Null
               /\ \E i \in 1 .. count :
                     heap[call.result[p.row][p.col]].type = palette[i]

\* a refill at a level of five types that made a tile of the fifth type
C27_Witness ==
    /\ call.fn = "applyGravity"
    /\ call.level \in 10 .. 19
    /\ \E p \in Positions(call.result) :
          heap[call.result[p.row][p.col]].type = "purple"

\* C28: the busy flag stays true from the press that accepts a swap until
\* its cascade has reached stability or the cap: while the start of the
\* cascade or one of its animation waits is pending, the flag is set.
C28_BusyUntilCascadeEnds ==
    (\E t \in tasks : t.kind \in {"process", "break", "fall"}) =>
        gameState.isProcessing

\* C29: createInitialBoard draws at most 11 candidates for a cell, the first
\* and at most 10 regenerations, and places the last one as it is; when the
\* candidate placed in every cell passed the run check against the cells to
\* its left and above, the board has no run of 3 or more.
C29_ElevenCandidatesPerCell ==
    /\ cib.pc = "loop" => 1 + cib.attempts <= 11
    /\ (cib.pc = "done" /\ cib.placedInRun = 0) => findMatches(heap, cib.board) = {}

\* a finished board with a cell that used all 11 candidates, the 11th of
\* which passed the check, as did the candidate of every other cell
C29_Witness ==
    /\ cib.pc = "done"
    /\ cib.unchecked = 1
    /\ cib.placedInRun = 0

\* C30: when the cascade of an accepted swap ends after fewer than 20
\* iterations, the board it leaves in the session state is stable:
\* findMatches finds nothing on it.
C30_StableUnlessCapReached ==
    (last.kind = "finish" /\ last.iterations < 20) =>
        findMatches(heap, gameState.board) = {}

\* a cascade of two refills that ended before the cap: its third pass found
\* no match on the board now in the session state
C30_Witness ==
    /\ last.kind = "finish"
    /\ last.iterations = 3
    /\ last.ghost.matched >= 2 * 3
    /\ ~last.stillMatches
    /\ findMatches(heap, gameState.board) = {}

\* C31: every board written to the session state (the initial board, the
\* swapped board, the snapshot with the matched tiles marked, the snapshot
\* after gravity, the board swapped back, the randomized board) has a tile
\* in every cell.
C31_NoEmptyCellInSessionBoard ==
    \A p \in Positions(gameState.board) : gameState.board[p.row][p.col] # Null

\* the snapshot after gravity of a cascade that took tiles off the board is
\* in the session state, and it is full
C31_Witness ==
    /\ last.kind = "fallen"
    /\ \E c \in DOMAIN last.ghost.removed : last.ghost.removed[c] >= 3
    /\ \A p \in Positions(gameState.board) : gameState.board[p.row][p.col] # Null

\* C32: in every state of a session the board has the dimensions of the
\* size table for the level of the session (4 x 4 up to level 10, 5 x 5 up
\* to 30, ...), every row as long as the first; so the dimensions change
\* only when the level does, not in a swap, a cascade or a randomization.
C32_BoardHasSizeOfLevel ==
    LET side == 4 + Cardinality({i \in DOMAIN SizeSteps : gameState.level > SizeSteps[i]})
    IN  /\ DOMAIN gameState.board = 0 .. side - 1
        /\ \A r \in DOMAIN gameState.board : DOMAIN gameState.board[r] = 0 .. side - 1

\* a board installed by the deadlock randomization, after a cascade changed
\* the cells, still 4 x 4 at level 1
C32_Witness ==
    /\ last.kind = "randomized"
    /\ gameState.level = 1
    /\ NumRows(gameState.board) = 4
    /\ NumCols(gameState.board) = 4
    /\ nReset = 0

\* C33: after resetGame the session is a fresh game and stays so until the
\* next tile press: a step taken right after the reset that is not a press
\* (a cascade or a deadlock check that was pending at the reset) leaves
\* the board, the score, the level, the moves and the collected counts of
\* the new game as they are.
C33_ResetStaysFresh ==
    [][(last.kind = "reset"
            /\ last'.kind \notin {"select", "deselect", "accept", "reject", "reset"})
         => /\ gameState'.board = gameState.board
            /\ gameState'.score = gameState.score
            /\ gameState'.level = gameState.level
            /\ gameState'.moves = gameState.moves
            /\ gameState'.collectedColors = gameState.collectedColors]_vars

\* C34: the remaining move count is never negative: a press at 0 moves is
\* ignored, and no sequence of presses takes moves below 0.
C34_MovesNeverNegative ==
    gameState.moves >= 0

\* the last move was spent on an accepted swap, moves is 0 and a tile can
\* be pressed (no alert is up)
C34_Witness ==
    /\ gameState.moves = 0
    /\ last.kind \in {"accept", "matched", "fallen", "finish"}
    /\ last.ghost.pre.moves = 1
    /\ \E p \in PressCells : ENABLED Press(p.row, p.col)

\* C35: level completion is reachable from level 1: the level-complete
\* outcome is produced when checkLevelComplete answers true for the state
\* at the end of a cascade, so for a session at level 1 there are a board
\* (the one at hand, or one with every cell empty) and collected counts
\* (nothing, or a thousand of a type) a cascade can end with for which it
\* answers true.
C35_LevelOneCanComplete ==
    gameState.level = 1 =>
        \E collected \in [DOMAIN NoneCollected -> {0, 1000}],
           board \in {gameState.board, removeMatches(gameState.board,
                                                     Positions(gameState.board))} :
            checkLevelComplete([gameState EXCEPT !.board = board,
                                                 !.collectedColors = collected])

\* C36: between resets the score of the session never decreases: no step
\* other than a reset lowers it, so the points of a finished cascade are
\* not taken back by another one.
C36_ScoreNeverDecreases ==
    [][nReset' = nReset => gameState'.score >= gameState.score]_vars

C38_RequiredTypesInPalette ==
    (call.fn = "getLevelConfig" /\ call.result.objective.type = "collect_colors") =>
        LET required == DOMAIN call.result.objective.targetColors
            width == IF call.level < 10 THEN 4 ELSE IF call.level < 20 THEN 5 ELSE 6
            made == {createCandy(0, 0, call.level, draw).type : draw \in 0 .. width - 1}
        IN  /\ required \subseteq made
            /\ made = {<<"red", "blue", "green", "yellow", "purple", "orange">>[i] :
                          i \in 1 .. width}
            /\ Cardinality(required) <= width

\* level 5: two required types, one of them yellow, the last of the four
\* types of the level
C38_Witness ==
    /\ call.fn = "getLevelConfig"
    /\ call.level = 5
    /\ "yellow" \in DOMAIN call.result.objective.targetColors
    /\ Cardinality(DOMAIN call.result.objective.targetColors) = 2

=============================================================================
